---- MODULE Spec2Model ----
(***************************************************************************)
(* A model of the wandelscript runtime.                                    *)
(*                                                                         *)
(*   Spec        the action queue (runtime.py, ActionQueue) driven by the  *)
(*               statements of a program (metamodel.py: moves, writes,     *)
(*               calls, interrupts, syncs and the implicit final sync).    *)
(*   SpecRunner  the life cycle of a ProgramRunner (runner.py): start(),   *)
(*               stop(), the execution thread and its exception handlers.  *)
(*   SpecContext robot contexts and sync (ExecutionContext.with_robot,     *)
(*               sync; RobotContext.call).                                 *)
(*   SpecSyncContext  `do: A sync: B except: C` (SyncContext.call).        *)
(*   SpecModifier     `with m(x): body` and `move ... with m(x)`           *)
(*               (Modifier.call, Context.call, Motion.call).               *)
(*   SpecPlan    a program run with the PlannableActionQueue.              *)
(*   SpecStop    a stop request during a drain (ActionQueue.run,           *)
(*               stoppable_run).                                           *)
(*   SpecEstop   SpecRunner with the emergency-stop handler of the runner. *)
(*   SpecActive  the active robot (ExecutionContext.active_robot).         *)
(*   SpecCallStack    the call stack (CallStack, new_call_frame).          *)
(*   SpecStore   scopes and assignment (Store, Assignment.call).           *)
(*   SpecSignal  break and return (BreakSignal, ReturnSignal).             *)
(*   SpecSwitch  the switch statement (Switch.call, visitSwitch_).         *)
(*   SpecLexer   indentation in the lexer (WandelscriptLexerBase).         *)
(*   SpecAssoc   the builtin assoc (builtins/assoc.py).                    *)
(*   SpecFrames  the frame system (frames.py, FrameSystem).                *)
(*   SpecTrigger the order of work for one motion state                    *)
(*               (ActionQueue.trigger_actions).                            *)
(*   SpecRecording    motion recordings and execution results              *)
(*               (ExecutionContext.motion_group_recordings).               *)
(*   SpecObserver     SpecRunner with the on_state_change callback.        *)
(*   SpecShield  a cancelled run and its shielded statements               *)
(*               (Rule.__call__, stoppable_run).                           *)
(*   SpecCall    function and interrupt calls (new_call_frame).            *)
(*   SpecForeign foreign functions (FunctionCall._builtins).               *)
(*   SpecStdout  sys.stdout under redirect_stdout (ProgramRunner.start).   *)
(*                                                                         *)
(* The specifications share one list of variables; each leaves the         *)
(* variables of the others untouched.                                      *)
(***************************************************************************)
EXTENDS Integers, Sequences, FiniteSets, TLC

VARIABLES
    \* ---- ActionQueue / ExecutionContext (runtime.py) ----
    record,          \* ActionQueue._record: robot -> buffer (sequence of items)
    recKeys,         \* insertion order of the keys of _record (a dict)
    tcp,             \* ActionQueue._tcp: robot -> tool, None when absent
    last_motions,    \* ActionQueue._last_motions: robot -> id of last motion
    callbacks,       \* ActionQueue._on_motion_callbacks (set of interrupt names)
    qpc,             \* position of the program: idle, streaming, failed
    trig,            \* robot -> trigger_actions generator of the running drain
    devLog,          \* device side: ids of the actions executed, in order
    planLog,         \* planner side: robot -> sequence of planned motion lists
    pushedSince,     \* robot -> motions appended since the previous sync ended
    deferred,        \* ids of the writes issued while some buffer was not empty
    completed,       \* ids of the items of the buffers of completed drains
    drained,         \* ids of the actions of the last completed drain that sat
                     \* in a buffer with at least one motion
    nsync,           \* number of syncs (explicit or implicit) begun so far
    nextId,          \* next fresh id for a motion or an action
    lastError,       \* exception raised by the last statement, None if none
    \* ---- ProgramRunner (runner.py) ----
    state,           \* ProgramRun.state
    error,           \* ProgramRun.error, None until an exception is handled
    traceback,       \* ProgramRun.traceback, None until an exception is handled
    rpc,             \* execution -> position of its thread in runner()/_run()
    self_stop_event, \* the execution whose threading.Event self._stop_event
                     \* refers to, 0 while it is None
    sync_stop,       \* execution -> its threading.Event is set
    cancelled,       \* execution -> the run scope of its stoppable_run is
                     \* cancelled
    propagating,     \* execution -> what travels up through _run: none,
                     \* cancel (CancelledError) or exc (an Exception)
    phase,           \* execution -> what its program is doing: stmt, wait, drain
    abnormal,        \* execution -> it ended abnormally, not by a user stop
    stopAccepted,    \* stop() has been called while the run was RUNNING
    lastCall,        \* outcome of the last start() or stop() call
    \* ---- robot contexts (ExecutionContext, RobotContext) ----
    active_robot,    \* ExecutionContext._active_robot, None outside `do with`
    inRobotStmt,     \* a `do with ... and do with ...` statement is being
                     \* executed and its implicit sync is still to come
    \* ---- one `do: A sync: B except: C` statement (SyncContext) ----
    stmt,            \* which of do_body, sync_body, exception_handler it has
    spc,             \* position in SyncContext.call
    doErr,           \* how the do body ended: None, "ok" or the error raised
    drainErr,        \* how context.sync() ended: None, "ok" or the error
    ranB,            \* the sync body has run
    ranC,            \* the exception handler has run
    err,             \* the error that left SyncContext.call, None if none
    \* ---- modifiers: `with m1(x), m2(y): body`, `move ... with m(x)` ----
    settings,        \* the motion setting variables of the store
    blocks,          \* the `with` blocks being executed, innermost last: the
                     \* undo closures of each and the settings before it
    left,            \* the last `with` block or modified move that was left:
                     \* how, and the settings before and after it
    queued,          \* the settings the last motion was queued with (those of
                     \* MotionSettings before any motion)
    \* ---- plan-only run: ProgramRunner with PlannableActionQueue ----
    plRecord,        \* _record of the plan-only queue: per robot the number
                     \* of motions and the attached actions
    plDevLog,        \* the actions that reached a device, in order
    plIssued,        \* number of not permitted actions the program issued
    plRaised,        \* number of actions that raised NotPlannableError
    plState,         \* state of the program run
    plStmts,         \* number of statements executed
    \* ---- a stop request during ActionQueue.run ----
    dpc,             \* position of the task that runs _run
    dStates,         \* motion states the stream has still to deliver
    dCallbacks,      \* callbacks still to run for the current state
    dActions,        \* actions still to run at the current position
    nCallbacks,      \* number of active interrupts
    stop_event,      \* the stop event is set
    stopper,         \* position of the task that runs stopper()
    cell_stops,      \* number of calls of robot_cell.stop()
    executed,        \* number of attached actions and interrupt callbacks
                     \* the drain has executed
    \* ---- ExecutionContext: the robot a statement is executed for ----
    built,           \* the ExecutionContext has been constructed
    robot_ids,       \* _robot_ids: robot_cell.get_robot_ids()
    given_default,   \* the default_robot argument of the constructor
    own_default,     \* _default_robot
    own_active,      \* _active_robot
    resolved,        \* the last read of the property active_robot: the
                     \* _active_robot it was read under and its outcome
    \* ---- CallStack ----
    frames,          \* len(call_stack._frames), 0 before the context exists
    context_var,     \* current_execution_context_var holds the context
    kpc,             \* "none", "running" or "failed"
    overflow,        \* what the last push on a full stack raised
    \* ---- Store: scopes and assignment ----
    scopes,          \* the scope chain, the global Store first and the
                     \* current Store last: _data of each
    assigned,        \* the last assignment: its kind, the values written
                     \* and the scope chain before it
    \* ---- control signals ----
    nest,            \* the constructs around the current statement,
                     \* outermost first: "block", "loop" or "function"
    signal,          \* the signal that is propagating, "none" if none
    run_error,       \* the exception the runner has handled, None if none
    \* ---- switch ----
    swpc,            \* "idle", "case" (in the loop), "done" or "failed"
    sw,              \* the statement: the value of the switch expression,
                     \* the values of the cases, whether it has a default
    swIdx,           \* the case the loop stands at
    swRan,           \* the cases whose body was executed
    swDefault,       \* the default body was executed
    swError,         \* the error the statement raised, None if none
    \* ---- lexer ----
    lxInput,         \* the characters of the input stream
    lxPos,           \* index of the next character, 0 before construction
    lxTokens,        \* WandelscriptLexerBase.tokens: emitted, not yet returned
    lxIndents,       \* WandelscriptLexerBase.indents: the indentation stack
    lxOpened,        \* WandelscriptLexerBase.opened: open brackets
    lxHitEOF,        \* Lexer._hitEOF
    lxOut,           \* the tokens nextToken has returned so far
    lxAtEnd,         \* the levels on the stack when the end of input was met
    \* ---- assoc ----
    aspc,            \* "idle", "ready", "once" or "done"
    asX,             \* the value x held by the caller
    asBefore,        \* x as it was before the calls
    asKey,           \* the key: an index for sequences, a name for records
    asVals,          \* the values v1 and v2
    asOnce,          \* assoc(x, k, v2)
    asInner,         \* assoc(x, k, v1)
    asTwice,         \* assoc(assoc(x, k, v1), k, v2)
    \* ---- frame system ----
    relations,       \* FrameSystem._relations: key and item, in insertion order
    fsResult,        \* the last eval: its arguments and what it returned or raised
    \* ---- trigger_actions ----
    tpc,             \* "idle", "next", "callbacks", "fire" or "ended"
    tStream,         \* path parameters of the motion states still to come
    tState,          \* path parameter of the motion state being handled
    tPending,        \* the sorted list `actions` of the generator
    tAtState,        \* `actions` as it was when the state arrived
    tIndex,          \* last_action_index of the loop over `actions`
    tCallbacksLeft,  \* callbacks _run_callbacks has still to await
    tActive,         \* number of active interrupt callbacks
    tStop,           \* the stop event is set
    tLog,            \* what the generator did for the state, in order
    \* ---- ExecutionContext.motion_group_recordings and execution results (runtime.py, runner.py) ----
    erPc,            \* idle, running (program of a run executes) or draining (ActionQueue._run streams)
    erRecordings,    \* ExecutionContext.motion_group_recordings: group -> list of paths (<<>>: no key)
    erRun,           \* number of runs started in the process
    erRunStart,      \* last motion state issued before the current run started
    erIssued,        \* number of motion states streamed so far (a state is its number)
    erDrain,         \* states streamed in the current drain, per group, in order
    erDrains,        \* per group, the streamed states of each finished drain that moved it
    erRunDrains,     \* drains finished in the current run
    erResults,       \* ProgramRun.execution_results of each finished run: group -> paths
    erStarts,        \* erRunStart of each finished run
    \* ---- the on_state_change callback of ProgramRunner.start (runner.py) ----
    on_state_change, \* the state the run showed at each invocation of on_state_change, in order
    state_changes,   \* the new state of each assignment that changed ProgramRun.state, in order
    \* ---- a cancelled run and its shielded statements (metamodel.py Rule.__call__, runner.py) ----
    hpc,             \* the task of ProgramRunner._run: idle, prog, stopping, finally, exit, closed
    hProgram,        \* the statements of the program body: assign or write
    hNext,           \* index of the statement the task created by asyncio.shield evaluates next
    hState,          \* ProgramRun.state of the run
    hStopSet,        \* ProgramRunner.stop() has set the stop event
    hEvaluated,      \* number of statements evaluated so far
    hIssued,         \* number of actions issued to a device so far
    \* ---- function and interrupt calls on the call stack (metamodel.py func closures, runtime.py new_call_frame) ----
    csStack,         \* CallStack._frames: the scopes, the global scope 0 first, the current scope last
    csPending,       \* for each call in progress, the frames before its new_call_frame
    csNextId,        \* number of scopes created by calls so far
    csSignal,        \* the error or signal propagating: none, error, break
    csLeft,          \* the call left last: how, the frames before the call and after it was left
    \* ---- foreign functions and FunctionCall._builtins (runtime.py, metamodel.py, ffi.py) ----
    builtins_,       \* FunctionCall._builtins, a class attribute: the registered names
    xRun,            \* number of execution contexts created in the process
    xGiven,          \* the names of the foreign functions given to the current run
    xStore,          \* the names the program of the current run has bound to functions
    xCall,           \* the last function call of the current run: its name and outcome
    \* ---- sys.stdout under contextlib.redirect_stdout(Tee(sys.stdout)) (runner.py, utils/runtime.py) ----
    sys_stdout,      \* sys.stdout: 0 is the stream before any runner, i > 0 the Tee of runner i
    opc,             \* per runner: idle, running (inside the with block) or finished
    old_target,      \* per runner, the stream redirect_stdout saved on entry; also Tee.stream
    tee_value,       \* per runner, the number of strings its Tee has captured
    written          \* number of strings that reached the original stream

qvars == <<record, recKeys, tcp, last_motions, callbacks, qpc,
           trig, devLog, planLog, pushedSince, deferred, completed, drained,
           nsync, nextId, lastError>>

rvars == <<state, error, traceback, rpc, self_stop_event, sync_stop, cancelled,
           propagating, phase, abnormal, stopAccepted, lastCall>>

cvars == <<active_robot, inRobotStmt>>

svars == <<stmt, spc, doErr, drainErr, ranB, ranC, err>>

mvars == <<settings, blocks, left, queued>>

pvars == <<plRecord, plDevLog, plIssued, plRaised, plState, plStmts>>

dvars == <<dpc, dStates, dCallbacks, dActions, nCallbacks, stop_event,
           stopper, cell_stops, executed>>

avars == <<built, robot_ids, given_default, own_default, own_active,
           resolved>>

kvars == <<frames, context_var, kpc, overflow>>

stvars == <<scopes, assigned>>

gvars == <<nest, signal, run_error>>

wvars == <<swpc, sw, swIdx, swRan, swDefault, swError>>

lvars == <<lxInput, lxPos, lxTokens, lxIndents, lxOpened, lxHitEOF, lxOut, lxAtEnd>>

bvars == <<aspc, asX, asBefore, asKey, asVals, asOnce, asInner, asTwice>>

fvars == <<relations, fsResult>>

tvars == <<tpc, tStream, tState, tPending, tAtState, tIndex, tCallbacksLeft, tActive, tStop, tLog>>

ervars == <<erPc, erRecordings, erRun, erRunStart, erIssued, erDrain, erDrains, erRunDrains, erResults, erStarts>>

nvars == <<on_state_change, state_changes>>

hvars == <<hpc, hProgram, hNext, hState, hStopSet, hEvaluated, hIssued>>

csvars == <<csStack, csPending, csNextId, csSignal, csLeft>>

xvars == <<builtins_, xRun, xGiven, xStore, xCall>>

ovars == <<sys_stdout, opc, old_target, tee_value, written>>

vars == <<qvars, rvars, cvars, svars, mvars, pvars, dvars, avars, kvars,
          stvars, gvars, wvars, lvars, bvars, fvars, tvars, ervars, nvars, hvars, csvars, xvars, ovars>>

None == "None"

Robots == {"r1", "r2"}
Tools == {"t1", "t2"}
Interrupts == {"i1"}

\* MOTION_LIMIT_IN, scaled down from 10000 so that a buffer can be filled
MotionLimitIn == 2
\* number of items (motions and actions) a run of the model creates
MaxItems == 3
\* steps_per_action of the simulated planner, scaled down from 10
StepsPerAction == 2
\* number of syncs a run of the model executes
MaxSyncs == 2
\* largest number of motions one connector hands to push()
MaxPush == 2
\* number of start() calls that can find the runner NOT_STARTED
MaxStarts == 2
\* deepest nesting of `with` blocks
MaxDepth == 2
\* largest number of modifiers of one `with` statement or move
MaxModifiers == 2
\* number of statements of a program run with the plan-only queue
MaxPlanStmts == 4
\* motion states one drain streams
MaxStreamStates == 2
\* longest scope chain of the store
MaxScopes == 2
\* deepest nesting of blocks, loops and function calls around a statement
MaxNest == 3
\* largest number of cases of a switch
MaxCases == 3
\* longest input of the lexer, in characters
MaxChars == 5
\* longest array given to assoc
MaxArrayLen == 2
\* largest number of relations stored in a frame system
MaxRelations == 3
\* runs started in one process
MaxRuns == 2
\* drains (syncs) per run
MaxDrains == 2
\* motion states streamed in the process
MaxStates == 3
\* statements of the program body
MaxBodyStmts == 3
\* calls of functions or interrupts in one program
MaxCalls == 4
\* ProgramRunner objects started in the process
MaxRunners == 3
\* print calls in the process
MaxWrites == 2
\* attached actions that are due at one position of the drain
MaxDueActions == 2
\* interrupts that are active during a drain
MaxCallbacks == 2


Range(s) == {s[i] : i \in DOMAIN s}

\* a queued motion
MotionItem(id) == [kind |-> "motion", id |-> id]
\* a queued WriteAction
ActionItem(id) == [kind |-> "write", id |-> id]

\* CombinedActions.motions: the motions of a buffer, in buffer order
RECURSIVE Motions(_)
Motions(buf) ==
    IF buf = <<>> THEN <<>>
    ELSE IF Head(buf).kind = "motion"
         THEN <<Head(buf).id>> \o Motions(Tail(buf))
         ELSE Motions(Tail(buf))

\* CombinedActions.actions: the actions of a buffer as ActionLocation entries;
\* the path parameter of an action is the number of motions in front of it
RECURSIVE ActionsFrom(_, _)
ActionsFrom(buf, nmotions) ==
    IF buf = <<>> THEN <<>>
    ELSE IF Head(buf).kind = "motion"
         THEN ActionsFrom(Tail(buf), nmotions + 1)
         ELSE <<[path_parameter |-> nmotions, id |-> Head(buf).id]>>
              \o ActionsFrom(Tail(buf), nmotions)

Actions(buf) == ActionsFrom(buf, 0)

ItemIds(buf) == {buf[i].id : i \in DOMAIN buf}
ActionIds(buf) == {buf[i].id : i \in {j \in DOMAIN buf : buf[j].kind # "motion"}}

\* sorted(actions, key=path_parameter): a stable insertion sort
RECURSIVE InsertSorted(_, _)
InsertSorted(s, a) ==
    IF s = <<>> THEN <<a>>
    ELSE IF a.path_parameter < Head(s).path_parameter
         THEN <<a>> \o s
         ELSE <<Head(s)>> \o InsertSorted(Tail(s), a)

RECURSIVE SortedActions(_)
SortedActions(s) ==
    IF s = <<>> THEN <<>>
    ELSE InsertSorted(SortedActions(SubSeq(s, 1, Len(s) - 1)), s[Len(s)])

\* ActionQueue.is_empty
is_empty == \A r \in Robots : record[r] = <<>>

\* ids n, n+1, ..., n+k-1 as a sequence
IdSeq(n, k) == [i \in 1..k |-> n + i - 1]

\* number of times action id a was executed on a device
RECURSIVE Count(_, _)
Count(s, a) ==
    IF s = <<>> THEN 0
    ELSE (IF Head(s) = a THEN 1 ELSE 0) + Count(Tail(s), a)

NoTrigger == [active |-> FALSE, pending |-> <<>>, pos |-> 0, len |-> 0]

QInit ==
    /\ record = [r \in Robots |-> <<>>]
    /\ recKeys = <<>>
    /\ tcp = [r \in Robots |-> None]
    /\ last_motions = [r \in Robots |-> 0]
    /\ callbacks = {}
    /\ qpc = "idle"
    /\ trig = [r \in Robots |-> NoTrigger]
    /\ devLog = <<>>
    /\ planLog = [r \in Robots |-> <<>>]
    /\ pushedSince = [r \in Robots |-> <<>>]
    /\ deferred = {}
    /\ completed = {}
    /\ drained = {}
    /\ nsync = 0
    /\ nextId = 1
    /\ lastError = None

(***************************************************************************)
(* ActionQueue.push                                                        *)
(***************************************************************************)

\* a tool check that accepts every tool
TcpConflict_mut(r, tool) == FALSE

\* the tool check of push: the robot has a tool and the push names another
TcpConflict(r, tool) == tcp[r] # None /\ tool # None /\ tcp[r] # tool

\* the tool map after the tool check of push
TcpAfterPush(r, tool) ==
    IF tcp[r] = None /\ tool # None THEN [tcp EXCEPT ![r] = tool] ELSE tcp

\* the capacity check of push, made before each motion is appended
BufferFull(buf) == Len(buf) >= MotionLimitIn

\* the for loop of push over the motions of one call: the buffer, the ids of
\* the motions appended and whether the capacity check raised
RECURSIVE PushLoop(_, _)
PushLoop(buf, ids) ==
    IF ids = <<>> THEN [buf |-> buf, appended |-> <<>>, error |-> FALSE]
    ELSE IF BufferFull(buf) THEN [buf |-> buf, appended |-> <<>>, error |-> TRUE]
    ELSE LET rest == PushLoop(Append(buf, MotionItem(Head(ids))), Tail(ids))
         IN  [buf |-> rest.buf,
              appended |-> <<Head(ids)>> \o rest.appended,
              error |-> rest.error]

\* _record gets a key the first time a robot is pushed to or attached to
KeysWith(r) == IF r \in Range(recKeys) THEN recKeys ELSE Append(recKeys, r)

\* Motion.call / Connector.call: a move statement pushes n motions for robot
\* r naming tool; an error ends the program
Push(r, tool, n) ==
    /\ qpc = "idle"
    /\ nextId + n - 1 <= MaxItems
    /\ nextId' = nextId + n
    /\ IF TcpConflict(r, tool)
       THEN /\ lastError' = "MotionError"
            /\ qpc' = "failed"
            /\ UNCHANGED <<record, recKeys, tcp, last_motions, pushedSince>>
       ELSE LET res == PushLoop(record[r], IdSeq(nextId, n)) IN
            /\ tcp' = TcpAfterPush(r, tool)
            /\ record' = [record EXCEPT ![r] = res.buf]
            /\ recKeys' = KeysWith(r)
            /\ last_motions' =
                 IF res.appended = <<>> THEN last_motions
                 ELSE [last_motions EXCEPT ![r] = res.appended[Len(res.appended)]]
            /\ pushedSince' = [pushedSince EXCEPT ![r] = @ \o res.appended]
            /\ lastError' = IF res.error THEN "MotionError" ELSE None
            /\ qpc' = IF res.error THEN "failed" ELSE "idle"
    /\ UNCHANGED <<callbacks, trig, devLog, planLog, deferred,
                   completed, drained, nsync>>

(***************************************************************************)
(* Write.call, Call.call, ActionQueue.attach_action, run_action            *)
(***************************************************************************)

\* a write that never waits for the queue
WriteRunsNow_mut == TRUE

\* Write.call runs the action at once when the queue is empty
WriteRunsNow == is_empty

\* attach_action: the buffer of robot r with the action appended
AttachAction(buf, id) == Append(buf, ActionItem(id))

\* a write statement issued while robot r is the active robot
Write(r) ==
    /\ qpc = "idle"
    /\ nextId <= MaxItems
    /\ nextId' = nextId + 1
    /\ lastError' = None
    /\ deferred' = IF is_empty THEN deferred ELSE deferred \cup {nextId}
    /\ IF WriteRunsNow
       THEN /\ devLog' = Append(devLog, nextId)
            /\ UNCHANGED <<record, recKeys>>
       ELSE /\ record' = [record EXCEPT ![r] = AttachAction(@, nextId)]
            /\ recKeys' = KeysWith(r)
            /\ UNCHANGED devLog
    /\ UNCHANGED <<tcp, last_motions, callbacks, qpc, trig, planLog,
                   pushedSince, completed, drained, nsync>>

\* a call statement: the CallAction is run at once
Call ==
    /\ qpc = "idle"
    /\ nextId <= MaxItems
    /\ nextId' = nextId + 1
    /\ lastError' = None
    /\ devLog' = Append(devLog, nextId)
    /\ UNCHANGED <<record, recKeys, tcp, last_motions, callbacks, qpc,
                   trig, planLog, pushedSince, deferred, completed, drained,
                   nsync>>

(***************************************************************************)
(* SwitchInterrupt.call                                                    *)
(***************************************************************************)

Activate(i) ==
    /\ qpc = "idle"
    /\ i \notin callbacks
    /\ callbacks' = callbacks \cup {i}
    /\ lastError' = None
    /\ UNCHANGED <<record, recKeys, tcp, last_motions, qpc, trig,
                   devLog, planLog, pushedSince, deferred, completed, drained,
                   nsync, nextId>>

Deactivate(i) ==
    /\ qpc = "idle"
    /\ i \in callbacks
    /\ callbacks' = callbacks \ {i}
    /\ lastError' = None
    /\ UNCHANGED <<record, recKeys, tcp, last_motions, qpc, trig,
                   devLog, planLog, pushedSince, deferred, completed, drained,
                   nsync, nextId>>

(***************************************************************************)
(* ActionQueue._run: planning                                              *)
(***************************************************************************)

\* number of motion states the simulated robot streams for n motions
StreamLen(n) == n * StepsPerAction

\* path parameter (location) of the k-th streamed state, k from 0, in units
\* of 1/(StepsPerAction - 1): motion i yields i + step/(StepsPerAction - 1)
Location(k) == (k \div StepsPerAction) * (StepsPerAction - 1) + (k % StepsPerAction)

\* path parameter of an action in the same units
Scaled(pp) == pp * (StepsPerAction - 1)

\* the actions _run executes right after it has planned the buffer of a robot
\* that holds motions (the loop following the trigger_actions call)
ActionsRunAtPlan(buf) == [i \in DOMAIN Actions(buf) |-> Actions(buf)[i].id]

\* one iteration of the for loop of _run over _record, for robot r
PlanOne(st, r) ==
    LET buf == record[r] IN
    IF Len(Motions(buf)) > 0
    THEN [trig    |-> [st.trig EXCEPT ![r] =
                         [active  |-> TRUE,
                          pending |-> SortedActions(Actions(buf)),
                          pos     |-> 0,
                          len     |-> StreamLen(Len(Motions(buf)))]],
          planLog |-> [st.planLog EXCEPT ![r] = Append(@, Motions(buf))],
          devLog  |-> st.devLog \o ActionsRunAtPlan(buf)]
    ELSE st

\* the for loop of _run over the keys of _record, in insertion order
RECURSIVE PlanAll(_, _)
PlanAll(st, keys) ==
    IF keys = <<>> THEN st
    ELSE PlanAll(PlanOne(st, Head(keys)), Tail(keys))

\* a drain that forgets to clear _record
ClearedRecord_mut == record

\* _record and _tcp after the two clear() calls that end _run
ClearedRecord == [r \in Robots |-> <<>>]
ClearedTcp == [r \in Robots |-> None]

\* bookkeeping when a drain has run to its end
FinishBookkeeping ==
    /\ completed' = completed \cup UNION {ItemIds(record[r]) : r \in Robots}
    /\ drained' = UNION {ActionIds(record[r]) :
                           r \in {q \in Robots : Motions(record[q]) # <<>>}}
    /\ pushedSince' = [r \in Robots |-> <<>>]

\* a sync statement, the sync of a do/sync/except block or the implicit sync
\* of RobotContext.call and RootBlock.call: _run up to the merged stream, and
\* to its end when no robot has motions
SyncBegin ==
    /\ qpc = "idle"
    /\ nsync < MaxSyncs
    /\ nsync' = nsync + 1
    /\ lastError' = None
    /\ LET st == PlanAll([trig |-> [r \in Robots |-> NoTrigger],
                          planLog |-> planLog, devLog |-> devLog], recKeys)
       IN  /\ planLog' = st.planLog
           /\ devLog' = st.devLog
           /\ IF \E r \in Robots : st.trig[r].active
              THEN /\ trig' = st.trig
                   /\ qpc' = "streaming"
                   /\ UNCHANGED <<record, recKeys, tcp, completed, drained,
                                  pushedSince>>
              ELSE /\ trig' = st.trig
                   /\ record' = ClearedRecord
                   /\ recKeys' = <<>>
                   /\ tcp' = ClearedTcp
                   /\ FinishBookkeeping
                   /\ qpc' = "idle"
    /\ UNCHANGED <<last_motions, callbacks, deferred, nextId>>

(***************************************************************************)
(* ActionQueue.trigger_actions and the merged stream of _run               *)
(***************************************************************************)

\* the pending actions trigger_actions fires for a state at location loc:
\* the longest prefix whose path parameter is at most loc
RECURSIVE FiredPrefix(_, _)
FiredPrefix(pending, loc) ==
    IF pending = <<>> THEN <<>>
    ELSE IF Scaled(Head(pending).path_parameter) <= loc
         THEN <<Head(pending).id>> \o FiredPrefix(Tail(pending), loc)
         ELSE <<>>

\* one motion state of robot r passes through trigger_actions: the callbacks
\* return, the due actions are run and deleted, the state is yielded
StreamStep(r) ==
    /\ qpc = "streaming"
    /\ trig[r].active
    /\ trig[r].pos < trig[r].len
    /\ LET fired == FiredPrefix(trig[r].pending, Location(trig[r].pos)) IN
       /\ devLog' = devLog \o fired
       /\ trig' = [trig EXCEPT ![r].pos = @ + 1,
                               ![r].pending =
                                  SubSeq(@, Len(fired) + 1, Len(@))]
    /\ UNCHANGED <<record, recKeys, tcp, last_motions, callbacks, qpc,
                   planLog, pushedSince, deferred, completed, drained, nsync,
                   nextId, lastError>>

\* _run_callbacks: the body of an active interrupt raises UserError for a
\* state of robot r; the error leaves _run before the clear() calls.
\* SyncContext.call catches it when the sync belongs to a block with an
\* except: part (handled); otherwise the error ends the program.
StreamRaise(r, handled) ==
    /\ qpc = "streaming"
    /\ trig[r].active
    /\ trig[r].pos < trig[r].len
    /\ callbacks # {}
    /\ lastError' = "UserError"
    /\ trig' = [q \in Robots |-> NoTrigger]
    /\ qpc' = IF handled THEN "idle" ELSE "failed"
    /\ pushedSince' = [q \in Robots |-> <<>>]
    /\ UNCHANGED <<record, recKeys, tcp, last_motions, callbacks,
                   devLog, planLog, deferred, completed, drained, nsync,
                   nextId>>

\* every stream is exhausted: the merge ends and _run clears _record and _tcp
DrainFinish ==
    /\ qpc = "streaming"
    /\ \A r \in Robots : trig[r].active => trig[r].pos = trig[r].len
    /\ record' = ClearedRecord
    /\ recKeys' = <<>>
    /\ tcp' = ClearedTcp
    /\ FinishBookkeeping
    /\ trig' = [r \in Robots |-> NoTrigger]
    /\ qpc' = "idle"
    /\ UNCHANGED <<last_motions, callbacks, devLog, planLog, deferred,
                   nsync, nextId, lastError>>

(***************************************************************************)
(* Properties of the action queue                                          *)
(***************************************************************************)

\* a step in which a sync returns without an error
SyncCompletes ==
    /\ qpc' = "idle"
    /\ lastError' = None
    /\ qpc = "streaming" \/ nsync' # nsync

\* C1: after the drain of a buffer that holds at least one motion has
\* completed, every action of that buffer has been executed exactly once
C1_EachActionExactlyOnce ==
    \A a \in drained : Count(devLog, a) = 1

\* C2 as stated: before the first sync no device has seen any effect
C2_NoEffectBeforeSync ==
    nsync = 0 => devLog = <<>> /\ \A r \in Robots : planLog[r] = <<>>

\* C2 amended: before the first sync nothing is planned and no write that was
\* issued while a buffer was not empty has reached its device
C2_DeferredEffectsWaitForSync ==
    nsync = 0 =>
        /\ \A r \in Robots : planLog[r] = <<>>
        /\ \A a \in deferred : Count(devLog, a) = 0

\* before any sync: a motion is queued, a write is deferred and another
\* write or a call has already reached its device
C2_Witness ==
    /\ nsync = 0
    /\ deferred # {}
    /\ devLog # <<>>
    /\ \E r \in Robots : Motions(record[r]) # <<>>

\* C3: during a drain the planner has received, for each robot, exactly the
\* motions pushed for that robot since the previous sync, in push order
C3_PlannerGetsPushesSinceLastSync ==
    qpc = "streaming" =>
        \A r \in Robots :
            /\ trig[r].active => planLog[r][Len(planLog[r])] = pushedSince[r]
            /\ ~trig[r].active => pushedSince[r] = <<>>

\* C8: a sync that completes without error leaves every buffer and the tool
\* map empty, and no later sync plans or executes an item of a completed drain
C8_CompletedDrainIsForgotten ==
    [][/\ SyncCompletes =>
            /\ \A r \in Robots : record'[r] = <<>>
            /\ \A r \in Robots : tcp'[r] = None
       /\ \A r \in Robots : ItemIds(record'[r]) \cap completed' = {}
       /\ \A r \in Robots :
            planLog'[r] # planLog[r] =>
                Range(planLog'[r][Len(planLog'[r])]) \cap completed = {}
       /\ \A i \in (Len(devLog) + 1)..Len(devLog') : devLog'[i] \notin completed
      ]_vars

\* a second sync is streaming after a first one has completed the drain of a
\* buffer with a motion and an action
C8_Witness ==
    /\ qpc = "streaming"
    /\ nsync >= 2
    /\ drained # {}
    /\ \E r \in Robots : ItemIds(record[r]) # {}

\* C9: the tool of a robot stays fixed until a sync completes, and a push
\* that names another tool raises MotionError and queues nothing
C9_ToolFixedUntilSync ==
    [][\A r \in Robots :
        /\ tcp[r] # None =>
             \/ tcp'[r] = tcp[r]
             \/ tcp'[r] = None /\ SyncCompletes
        /\ \A tool \in Tools, n \in 1..MaxPush :
             (tcp[r] # None /\ tool # tcp[r] /\ Push(r, tool, n)) =>
                 /\ lastError' = "MotionError"
                 /\ record' = record
                 /\ tcp' = tcp
      ]_vars

\* a push was rejected although no buffer is full: the tool check raised
C9_Witness ==
    /\ lastError = "MotionError"
    /\ \A r \in Robots : Len(record[r]) < MotionLimitIn
    /\ \E r \in Robots : tcp[r] # None /\ Motions(record[r]) # <<>>

\* C10: no buffer is ever longer than MOTION_LIMIT_IN
C10_BufferWithinLimit ==
    \A r \in Robots : Len(record[r]) <= MotionLimitIn

\* position of the action with the given id in a list of ActionLocation
RankIn(actions, id) == CHOOSE i \in DOMAIN actions : actions[i].id = id

\* C11: during a drain the actions attached to the motions of a robot fire in
\* ascending path_parameter order, actions of equal path_parameter in the
\* order in which they were attached
C11_ActionsFireInPathOrder ==
    qpc = "streaming" =>
        \A r \in Robots :
            LET order == SortedActions(Actions(record[r])) IN
            \A i, j \in DOMAIN devLog :
                (/\ i < j
                 /\ devLog[i] \in ActionIds(record[r])
                 /\ devLog[j] \in ActionIds(record[r])
                 /\ Motions(record[r]) # <<>>)
                => RankIn(order, devLog[i]) <= RankIn(order, devLog[j])

\* C12: a sync that completes has executed, once and in the order of their
\* attachment, the actions of every buffer that holds no motion
C12_MotionlessActionsRunAtSync ==
    [][SyncCompletes =>
         \A r \in Robots :
             Motions(record[r]) = <<>> =>
                 \A a \in ActionIds(record[r]) : Count(devLog', a) = 1
      ]_vars

\* C20: an error raised by an interrupt body while a motion state is
\* streamed does not reach the main flow: the drain goes on and the sync
\* records no error
C20_InterruptErrorStaysInside ==
    [][(\E r \in Robots, handled \in BOOLEAN : StreamRaise(r, handled)) =>
           (qpc' = "streaming" /\ lastError' = lastError)]_vars

(***************************************************************************)
(* Robot contexts: ExecutionContext.with_robot / sync (runtime.py) and     *)
(* RobotContext.call (metamodel.py)                                        *)
(***************************************************************************)
CInit ==
    /\ active_robot = None
    /\ inRobotStmt = FALSE

\* the robot the runner passes as default_robot
default_robot == "r1"

\* a context that never reports an active robot
is_in_robot_context_mut == FALSE

\* ExecutionContext.is_in_robot_context
is_in_robot_context == active_robot # None

\* ExecutionContext.active_robot
ActiveRobot == IF active_robot # None THEN active_robot ELSE default_robot

\* ExecutionContext.sync: NestedSyncError inside a robot context, else
\* action_queue.run.  The error leaves the body through the `finally` of
\* with_robot, which resets _active_robot, and ends the program.
ContextSync ==
    IF is_in_robot_context
    THEN /\ qpc = "idle"
         /\ lastError' = "NestedSyncError"
         /\ qpc' = "failed"
         /\ active_robot' = None
         /\ inRobotStmt' = FALSE
         /\ UNCHANGED <<record, recKeys, tcp, last_motions, callbacks, trig,
                        devLog, planLog, pushedSince, deferred, completed,
                        drained, nsync, nextId>>
    ELSE /\ SyncBegin
         /\ active_robot' = None
         /\ inRobotStmt' = FALSE

\* a motion statement: Connector.call pushes for the active robot
CtxPush(tool, n) ==
    /\ ~(inRobotStmt /\ active_robot = None)
    /\ Push(ActiveRobot, tool, n)
    /\ UNCHANGED cvars

\* RobotContext.call: `do with r:` or `and do with r:` enters with_robot;
\* inside another robot context with_robot raises ValueError
EnterRobotContext(r) ==
    /\ qpc = "idle"
    /\ IF is_in_robot_context
       THEN /\ lastError' = "ValueError"
            /\ qpc' = "failed"
            /\ active_robot' = None
            /\ inRobotStmt' = FALSE
       ELSE /\ lastError' = None
            /\ active_robot' = r
            /\ inRobotStmt' = TRUE
            /\ UNCHANGED qpc
    /\ UNCHANGED <<record, recKeys, tcp, last_motions, callbacks, trig, devLog,
                   planLog, pushedSince, deferred, completed, drained, nsync,
                   nextId>>

\* the body of a robot context ends: the `finally` of with_robot
LeaveRobotContext ==
    /\ qpc = "idle"
    /\ active_robot # None
    /\ active_robot' = None
    /\ UNCHANGED inRobotStmt
    /\ UNCHANGED qvars

\* RobotContext.call: the context.sync() after the last body
ImplicitSync ==
    /\ inRobotStmt
    /\ active_robot = None
    /\ ContextSync

\* a `sync` statement, at top level or inside the body of a robot context
SyncStatement ==
    /\ ~(inRobotStmt /\ active_robot = None)
    /\ ContextSync

\* C13: a sync evaluated while a robot context is active raises
\* NestedSyncError and plans and executes nothing; no planning starts while
\* a robot context is active; the implicit sync that ends the
\* `do with ... and do with ...` statement does not raise NestedSyncError
C13_NestedSyncRaises ==
    [][/\ (active_robot # None /\ SyncStatement) =>
              /\ lastError' = "NestedSyncError"
              /\ qpc' = "failed"
              /\ planLog' = planLog
              /\ devLog' = devLog
              /\ trig' = trig
              /\ record' = record
       /\ (planLog' # planLog \/ nsync' # nsync) => active_robot = None
       /\ ImplicitSync => /\ lastError' # "NestedSyncError"
                          /\ nsync' = nsync + 1
      ]_vars

\* a sync inside a robot context has raised NestedSyncError while motions
\* are queued, after an earlier robot context statement was drained by its
\* implicit sync
C13_Witness ==
    /\ lastError = "NestedSyncError"
    /\ nsync >= 1
    /\ \E r \in Robots : planLog[r] # <<>>
    /\ \E r \in Robots : Motions(record[r]) # <<>>

\* C23: entering a robot context while another robot context is active
\* raises WrongRobotError
C23_NestedRobotContextRaisesWrongRobot ==
    [][\A r \in Robots :
          (is_in_robot_context /\ EnterRobotContext(r))
          => lastError' = "WrongRobotError"]_vars

(***************************************************************************)
(* ExecutionContext.__init__, active_robot, with_robot (runtime.py)        *)
(***************************************************************************)
\* the robots a cell can hold
CellRobots == {"r1", "r2", "r3"}

AInit ==
    /\ built = FALSE
    /\ robot_ids = {}
    /\ given_default = None
    /\ own_default = None
    /\ own_active = None
    /\ resolved = [under |-> None, value |-> "unread"]

\* a constructor that takes the default as given
InitialDefault_mut(ids, default) == default

\* __init__: _default_robot is the given default, or the robot of a cell
\* with exactly one robot, or None
InitialDefault(ids, default) ==
    IF default = None
    THEN IF Cardinality(ids) = 1 THEN CHOOSE r \in ids : TRUE ELSE None
    ELSE default

\* ExecutionContext(robot_cell, stop_event, default_robot=default)
NewExecutionContext(ids, default) ==
    /\ ~built
    /\ built' = TRUE
    /\ robot_ids' = ids
    /\ given_default' = default
    /\ own_default' = InitialDefault(ids, default)
    /\ UNCHANGED <<own_active, resolved>>

\* the property active_robot
ActiveRobotOf(ids, active, default) ==
    IF ids = {} THEN "WrongRobotError"
    ELSE IF active # None THEN active
    ELSE IF default = None THEN "WrongRobotError"
    ELSE default

\* with_robot(r) is entered for a robot r of the cell; inside another robot
\* context it raises, and the error leaves through the `finally` of the
\* enclosing with_robot
WithRobotEnter(r) ==
    /\ built
    /\ r \in robot_ids
    /\ own_active' = IF own_active # None THEN None ELSE r
    /\ UNCHANGED <<built, robot_ids, given_default, own_default, resolved>>

\* the `finally` of with_robot
WithRobotLeave ==
    /\ built
    /\ own_active # None
    /\ own_active' = None
    /\ UNCHANGED <<built, robot_ids, given_default, own_default, resolved>>

\* Motion.call: `robot_identifier = context.active_robot`
MotionReadsActiveRobot ==
    /\ built
    /\ resolved' = [under |-> own_active,
                    value |-> ActiveRobotOf(robot_ids, own_active, own_default)]
    /\ UNCHANGED <<built, robot_ids, given_default, own_default, own_active>>

DEFAULT_CALL_STACK_SIZE == 64

KInit ==
    /\ frames = 0
    /\ context_var = FALSE
    /\ kpc = "none"
    /\ overflow = "none"

\* a program is run: ExecutionContext.__init__ pushes the global Store.
\* ProgramRunner._run sets current_execution_context_var (runner.py 266),
\* run_program (metamodel.py 1673) does not.
RunProgram(by_runner) ==
    /\ kpc = "none"
    /\ kpc' = "running"
    /\ frames' = 1
    /\ context_var' = by_runner
    /\ UNCHANGED overflow

\* CallStack.push, called by new_call_frame for a function, an interrupt or
\* a move definition: the frame is appended below max_frames; on a full
\* stack current_execution_context() is read for the location, which raises
\* LookupError when the context variable was never set, and otherwise
\* GenericRuntimeError is raised with that location.  The error ends the
\* program.
push_frame ==
    /\ kpc = "running"
    /\ IF frames < DEFAULT_CALL_STACK_SIZE
       THEN /\ frames' = frames + 1
            /\ UNCHANGED <<kpc, overflow>>
       ELSE /\ overflow' = IF context_var THEN "GenericRuntimeError"
                           ELSE "LookupError"
            /\ kpc' = "failed"
            /\ UNCHANGED frames
    /\ UNCHANGED context_var

\* new_call_frame after the yield: the body has ended (also by a return
\* signal, which the closure catches inside the with block): pop
pop_frame ==
    /\ kpc = "running"
    /\ frames > 1
    /\ frames' = frames - 1
    /\ UNCHANGED <<context_var, kpc, overflow>>

\* the body of a call raises an error: it leaves new_call_frame at the
\* yield, pop is not reached.  An enclosing sync ... except: block catches
\* the error (caught) or the program ends.
BodyRaises(caught) ==
    /\ kpc = "running"
    /\ frames > 1
    /\ kpc' = IF caught THEN "running" ELSE "failed"
    /\ UNCHANGED <<frames, context_var, overflow>>

\* C24: the call stack never holds more than 64 scopes, and a call on a
\* full stack raises the runtime error of wandelscript that carries the
\* source location, and pushes no scope
C24_CallStackBounded ==
    /\ frames <= DEFAULT_CALL_STACK_SIZE
    /\ overflow \in {"none", "GenericRuntimeError"}

(***************************************************************************)
(* Store (runtime.py) and Assignment.call (metamodel.py)                   *)
(***************************************************************************)
Names == {"a", "b"}
StoreValues == {"x", "y"}
Unbound == "unbound"
EmptyScope == [n \in Names |-> Unbound]

\* the scope a `with new_call_frame` adds: its init_locals
LocalInits == [Names -> StoreValues \cup {Unbound}]

StInit ==
    /\ scopes = <<EmptyScope>>
    /\ assigned = [kind |-> "none", values |-> EmptyScope, before |-> <<>>]

\* Store.scope_of_name seen from the current scope: the index of the
\* nearest scope of the chain that holds the name, 0 when none does
scope_of_name(chain, name) ==
    LET holders == {k \in DOMAIN chain : chain[k][name] # Unbound} IN
    IF holders = {} THEN 0
    ELSE CHOOSE k \in holders : \A j \in holders : j <= k

\* Store.__getitem__ / get on the current scope
lookup(chain, name) ==
    IF scope_of_name(chain, name) = 0 THEN Unbound
    ELSE chain[scope_of_name(chain, name)][name]

\* Store.__setitem__ on the current scope
setitem(chain, name, value) ==
    LET k == scope_of_name(chain, name) IN
    IF k = 0 THEN [chain EXCEPT ![Len(chain)][name] = value]
    ELSE [chain EXCEPT ![k][name] = value]

\* Store.update_local on the current scope
update_local(chain, values) ==
    [chain EXCEPT ![Len(chain)] =
        [n \in Names |-> IF values[n] # Unbound THEN values[n] ELSE @[n]]]

\* Store.descent in new_call_frame: a function is called
Descent(init_locals) ==
    /\ Len(scopes) < MaxScopes
    /\ scopes' = Append(scopes, init_locals)
    /\ assigned' = [kind |-> "none", values |-> EmptyScope, before |-> <<>>]

\* the call returns: the scope is popped
Ascent ==
    /\ Len(scopes) > 1
    /\ scopes' = SubSeq(scopes, 1, Len(scopes) - 1)
    /\ assigned' = [kind |-> "none", values |-> EmptyScope, before |-> <<>>]

\* Assignment.call with one name: `name = value`
AssignName(name, value) ==
    /\ scopes' = setitem(scopes, name, value)
    /\ assigned' = [kind |-> "name",
                    values |-> [EmptyScope EXCEPT ![name] = value],
                    before |-> scopes]

\* Assignment.call with several names: `a, b = (x, y)`
AssignNames(values) ==
    /\ scopes' = update_local(scopes, values)
    /\ assigned' = [kind |-> "names", values |-> values, before |-> scopes]

\* C25: after an assignment every assigned name has its value in the
\* nearest scope that bound it before (in the current scope when no scope
\* bound it), no other scope has changed or gained a binding, and a lookup
\* from the current scope returns the assigned value
C25_AssignmentWritesNearestScope ==
    assigned.kind # "none" =>
        \A n \in Names :
            LET k == scope_of_name(assigned.before, n)
                target == IF k = 0 THEN Len(scopes) ELSE k
            IN IF assigned.values[n] = Unbound
               THEN \A j \in DOMAIN scopes :
                        scopes[j][n] = assigned.before[j][n]
               ELSE /\ scopes[target][n] = assigned.values[n]
                    /\ \A j \in DOMAIN scopes \ {target} :
                           scopes[j][n] = assigned.before[j][n]
                    /\ lookup(scopes, n) = assigned.values[n]

(***************************************************************************)
(* Control signals: Break.call, Return.call, the loops, the closures of    *)
(* functions and interrupts (metamodel.py), and the handlers of            *)
(* ProgramRunner._run (runner.py)                                          *)
(***************************************************************************)
Constructs == {"block", "loop", "function"}
Signals == {"BreakSignal", "ReturnSignal"}

GInit ==
    /\ nest = <<>>
    /\ signal = "none"
    /\ run_error = None

\* what a construct catches: ForLoop, RepeatLoop and WhileLoop catch
\* BreakSignal, the closure of a function or interrupt catches ReturnSignal,
\* a block (Block, Conditional, Context, RobotContext, SyncContext) nothing
Catches(construct, sig) ==
    \/ construct = "loop" /\ sig = "BreakSignal"
    \/ construct = "function" /\ sig = "ReturnSignal"

\* the program enters the suite of a block or loop, or calls a function
EnterConstruct(construct) ==
    /\ run_error = None
    /\ signal = "none"
    /\ Len(nest) < MaxNest
    /\ nest' = Append(nest, construct)
    /\ UNCHANGED <<signal, run_error>>

\* the suite ends
LeaveConstruct ==
    /\ run_error = None
    /\ signal = "none"
    /\ nest # <<>>
    /\ nest' = SubSeq(nest, 1, Len(nest) - 1)
    /\ UNCHANGED <<signal, run_error>>

\* Break.call and Return.call: `raise BreakSignal`, `raise ReturnSignal`
RaiseSignal(sig) ==
    /\ run_error = None
    /\ signal = "none"
    /\ signal' = sig
    /\ UNCHANGED <<nest, run_error>>

\* the signal leaves the innermost construct, which catches it or not
PropagateSignal ==
    /\ signal # "none"
    /\ nest # <<>>
    /\ signal' = IF Catches(nest[Len(nest)], signal) THEN "none" ELSE signal
    /\ nest' = SubSeq(nest, 1, Len(nest) - 1)
    /\ UNCHANGED run_error

\* the signal leaves RootBlock and Program: Signal is an Exception, so
\* `except Exception` of ProgramRunner._run handles it as the error of the
\* run
SignalReachesRunner ==
    /\ signal # "none"
    /\ nest = <<>>
    /\ run_error' = signal
    /\ signal' = "none"
    /\ UNCHANGED nest

\* C26: no program, including one with break or return outside any loop or
\* function, makes a control signal reach the runner as an error of the run
C26_SignalsNeverReachRunner == run_error \notin Signals

(***************************************************************************)
(* Switch.call (metamodel.py) and visitSwitch_ (antlrvisitor.py)           *)
(***************************************************************************)
CaseValues == {1, 2}
CaseLists == UNION {[1..k -> CaseValues] : k \in 0..MaxCases}

WInit ==
    /\ swpc = "idle"
    /\ sw = [value |-> 1, cases |-> <<>>, has_default |-> FALSE]
    /\ swIdx = 1
    /\ swRan = {}
    /\ swDefault = FALSE
    /\ swError = None

\* visitSwitch_ has built the statement (default_body is None without a
\* default suite); Switch.call begins its loop over the cases
SwitchBegin(value, cases, has_default) ==
    /\ swpc = "idle"
    /\ swpc' = "case"
    /\ sw' = [value |-> value, cases |-> cases, has_default |-> has_default]
    /\ UNCHANGED <<swIdx, swRan, swDefault, swError>>

\* one pass of the loop: the switch expression and the case expression are
\* evaluated; on equality the body runs and the loop is left by break
SwitchCase ==
    /\ swpc = "case"
    /\ swIdx <= Len(sw.cases)
    /\ IF sw.value = sw.cases[swIdx]
       THEN /\ swRan' = swRan \cup {swIdx}
            /\ swpc' = "done"
            /\ UNCHANGED swIdx
       ELSE /\ swIdx' = swIdx + 1
            /\ UNCHANGED <<swRan, swpc>>
    /\ UNCHANGED <<sw, swDefault, swError>>

\* the `else` of the loop: `await self.default_body(context)`; calling the
\* default_body None raises TypeError
SwitchElse ==
    /\ swpc = "case"
    /\ swIdx > Len(sw.cases)
    /\ IF sw.has_default
       THEN /\ swDefault' = TRUE
            /\ swpc' = "done"
            /\ UNCHANGED swError
       ELSE /\ swError' = "TypeError"
            /\ swpc' = "failed"
            /\ UNCHANGED swDefault
    /\ UNCHANGED <<sw, swIdx, swRan>>

\* C27: a switch executes the body of the first case whose value equals
\* the switch value and no other body; when no case matches it executes
\* the default body if there is one, and otherwise nothing, and the
\* program continues after the switch
C27_SwitchFirstMatchOrDefault ==
    swpc \in {"done", "failed"} =>
        LET matches == {i \in DOMAIN sw.cases : sw.cases[i] = sw.value} IN
        /\ swpc = "done"
        /\ swError = None
        /\ IF matches # {}
           THEN /\ swRan = {CHOOSE i \in matches : \A j \in matches : i <= j}
                /\ ~swDefault
           ELSE /\ swRan = {}
                /\ swDefault = sw.has_default

(***************************************************************************)
(* WandelscriptLexerBase (grammar/WandelscriptLexerBase.py).  The input is *)
(* a sequence of characters; the rules of the generated lexer are the ones *)
(* the hooks of the base class are written for: a NEWLINE rule that takes  *)
(* a line break with the white space after it (or the white space at the   *)
(* start of the input) and calls on_newline, skipped white space and       *)
(* comments, brackets that call open_bracket/close_bracket, and names.     *)
(***************************************************************************)
Chars == {"x", "sp", "tab", "nl", "hash", "lp", "rp"}
Blank == {"sp", "tab"}
Inputs == UNION {[1..n -> Chars] : n \in 0..MaxChars}

LInit ==
    /\ lxInput = <<>>
    /\ lxPos = 0
    /\ lxTokens = <<>>
    /\ lxIndents = <<>>
    /\ lxOpened = 0
    /\ lxHitEOF = FALSE
    /\ lxOut = <<>>
    /\ lxAtEnd = 0

\* self._input.LA(i) with the stream at pos
LA(i, pos) ==
    IF pos + i - 1 <= Len(lxInput) THEN lxInput[pos + i - 1] ELSE "EOF"

\* the loop of get_indentation_count with its running count
RECURSIVE IndentationFrom(_, _)
IndentationFrom(whitespace, count) ==
    IF whitespace = <<>> THEN count
    ELSE IndentationFrom(Tail(whitespace),
                         IF Head(whitespace) = "tab"
                         THEN count + 8 - (count % 8)
                         ELSE count + 1)

get_indentation_count(whitespace) == IndentationFrom(whitespace, 0)

\* the position after the longest run of characters of cls from pos
RECURSIVE SpanEnd(_, _)
SpanEnd(pos, cls) ==
    IF pos <= Len(lxInput) /\ lxInput[pos] \in cls
    THEN SpanEnd(pos + 1, cls)
    ELSE pos

Repeated(token, k) == [i \in 1..k |-> token]

\* the number of levels the `while` of on_newline pops for indent
RECURSIVE PoppedLevels(_, _)
PoppedLevels(indents, indent) ==
    IF Len(indents) > 0 /\ indents[Len(indents)] > indent
    THEN 1 + PoppedLevels(SubSeq(indents, 1, Len(indents) - 1), indent)
    ELSE 0

\* on_newline for the matched text, the stream standing at pos after it
on_newline(text, pos, tokens, indents, opened) ==
    LET spaces == SelectSeq(text, LAMBDA c : c # "nl")
        next_ == LA(1, pos)
        next_next == LA(2, pos)
    IN  IF opened > 0 \/ (next_next # "EOF" /\ next_ \in {"nl", "hash"})
        THEN [tokens |-> tokens, indents |-> indents, skip |-> TRUE]
        ELSE LET indent == get_indentation_count(spaces)
                 previous == IF Len(indents) = 0 THEN 0
                             ELSE indents[Len(indents)]
                 emitted == Append(tokens, "NEWLINE")
             IN  IF indent = previous
                 THEN [tokens |-> emitted, indents |-> indents, skip |-> TRUE]
                 ELSE IF indent > previous
                 THEN [tokens |-> Append(emitted, "INDENT"),
                       indents |-> Append(indents, indent), skip |-> FALSE]
                 ELSE LET k == PoppedLevels(indents, indent) IN
                      [tokens |-> emitted \o Repeated("DEDENT", k),
                       indents |-> SubSeq(indents, 1, Len(indents) - k),
                       skip |-> FALSE]

\* Lexer.nextToken of the runtime with emitToken overridden: every token is
\* appended to `tokens`; a skipped match continues with the next one; at
\* the end of input an EOF token is emitted
RECURSIVE LexerNextToken(_, _, _, _, _)
LexerNextToken(pos, tokens, indents, opened, hitEOF) ==
    LET c == LA(1, pos)
        Emit(e, token, op) ==
            [pos |-> e, tokens |-> Append(tokens, token), indents |-> indents,
             opened |-> op, hitEOF |-> (LA(1, e) = "EOF")]
        Newline(e) ==
            LET r == on_newline(SubSeq(lxInput, pos, e - 1), e, tokens,
                                indents, opened)
            IN  IF r.skip
                THEN LexerNextToken(e, r.tokens, r.indents, opened,
                                    LA(1, e) = "EOF")
                ELSE [pos |-> e, tokens |-> r.tokens, indents |-> r.indents,
                      opened |-> opened, hitEOF |-> (LA(1, e) = "EOF")]
        Skip(e) == LexerNextToken(e, tokens, indents, opened, LA(1, e) = "EOF")
    IN  IF hitEOF \/ c = "EOF"
        THEN [pos |-> pos, tokens |-> Append(tokens, "EOF"),
              indents |-> indents, opened |-> opened, hitEOF |-> TRUE]
        ELSE CASE c = "nl" -> Newline(SpanEnd(pos + 1, Blank))
               [] c \in Blank /\ pos = 1 -> Newline(SpanEnd(pos, Blank))
               [] c \in Blank /\ pos # 1 -> Skip(SpanEnd(pos, Blank))
               [] c = "hash" -> Skip(SpanEnd(pos + 1, Chars \ {"nl"}))
               [] c = "lp" -> Emit(pos + 1, "OPEN", opened + 1)
               [] c = "rp" -> Emit(pos + 1, "CLOSE", opened - 1)
               [] c = "x" -> Emit(SpanEnd(pos, {"x"}), "NAME", opened)

\* the branch of nextToken at the end of input with levels left: buffered
\* EOF tokens removed, a NEWLINE, one DEDENT per level, then EOF
EofFlush_mut(tokens, indents) ==
    SelectSeq(tokens, LAMBDA t : t # "EOF")
        \o Repeated("DEDENT", Len(indents)) \o <<"EOF">>

EofFlush(tokens, indents) ==
    SelectSeq(tokens, LAMBDA t : t # "EOF") \o <<"NEWLINE">>
        \o Repeated("DEDENT", Len(indents)) \o <<"EOF">>

\* WandelscriptLexerBase.__init__ on an input stream
LexerInit(text) ==
    /\ lxPos = 0
    /\ lxInput' = text
    /\ lxPos' = 1
    /\ UNCHANGED <<lxTokens, lxIndents, lxOpened, lxHitEOF, lxOut, lxAtEnd>>

\* the token stream has been given the EOF token
ReturnedEOF == lxOut # <<>> /\ lxOut[Len(lxOut)] = "EOF"

\* one call of nextToken by the token stream, which stops asking at EOF
NextToken ==
    /\ lxPos > 0
    /\ ~ReturnedEOF
    /\ LET atEnd == LA(1, lxPos) = "EOF" /\ Len(lxIndents) # 0
           r == LexerNextToken(lxPos,
                               IF atEnd THEN EofFlush(lxTokens, lxIndents)
                                        ELSE lxTokens,
                               IF atEnd THEN <<>> ELSE lxIndents,
                               lxOpened, lxHitEOF)
       IN  /\ lxOut' = Append(lxOut, Head(r.tokens))
           /\ lxTokens' = Tail(r.tokens)
           /\ lxIndents' = r.indents
           /\ lxOpened' = r.opened
           /\ lxHitEOF' = r.hitEOF
           /\ lxPos' = r.pos
           /\ lxAtEnd' = IF atEnd THEN Len(lxIndents) ELSE lxAtEnd
    /\ UNCHANGED lxInput

CountOf(tokens, token) == Cardinality({i \in DOMAIN tokens : tokens[i] = token})

\* C28: the indentation stack is strictly increasing at all times; when
\* EOF is returned every INDENT has been matched by exactly one later
\* DEDENT, and if levels were left at the end of input the stream ends
\* with a NEWLINE, one DEDENT per level, and EOF
C28_IndentStackAndDedents ==
    /\ \A i \in 1..(Len(lxIndents) - 1) : lxIndents[i] < lxIndents[i + 1]
    /\ ReturnedEOF =>
        LET n == Len(lxOut) IN
        /\ CountOf(lxOut, "EOF") = 1
        /\ CountOf(lxOut, "INDENT") = CountOf(lxOut, "DEDENT")
        /\ \A m \in 1..n : CountOf(SubSeq(lxOut, 1, m), "DEDENT")
                               <= CountOf(SubSeq(lxOut, 1, m), "INDENT")
        /\ lxAtEnd > 0 =>
               /\ n >= lxAtEnd + 2
               /\ lxOut[n - lxAtEnd - 1] = "NEWLINE"
               /\ \A i \in (n - lxAtEnd)..(n - 1) : lxOut[i] = "DEDENT"

\* an input that ends two levels deep has been lexed to its EOF
C28_Witness ==
    /\ ReturnedEOF
    /\ lxAtEnd = 2
    /\ CountOf(lxOut, "INDENT") = 2

(***************************************************************************)
(* assoc (builtins/assoc.py) on arrays (tuples), vectors, poses, records   *)
(***************************************************************************)
VectorSize == 3
PoseSize == 6

AssocNumbers == {0, 1}
FieldNames == {"a", "b"}

\* one shape for every value: an array or vector keeps its elements in
\* items, a pose its position and orientation, a record its field `record`
\* as a set of <<name, value>> pairs; an exception is a value of its kind
MkValue(kind, items, position, orientation, fields) ==
    [kind |-> kind, items |-> items, position |-> position,
     orientation |-> orientation, record |-> fields]

Raised(exception) == MkValue(exception, <<>>, <<>>, <<>>, {})

Tuple(items) == MkValue("tuple", items, <<>>, <<>>, {})

\* nova.types.Vector3d called with its coordinates in order, as
\* `vec.__class__(*tmp)` and tests/test_datatypes.py call it
Vector3d(x, y, z) == MkValue("vector", <<x, y, z>>, <<>>, <<>>, {})

\* nova.types.Pose called with one tuple of six numbers
Pose(values) ==
    MkValue("pose", <<>>, SubSeq(values, 1, VectorSize),
            SubSeq(values, VectorSize + 1, PoseSize), {})

\* Pose.to_tuple
to_tuple(pose) == pose.position \o pose.orientation

\* types.Record called with keyword arguments: the model has the fields
\* `type` and `record`; `record` defaults to the empty dict and a keyword
\* that names no field is not stored
Record(kwargs) ==
    MkValue("record", <<>>, <<>>, <<>>,
            IF "record" \in DOMAIN kwargs THEN kwargs["record"] ELSE {})

\* `tmp[key] = val` on a list: negative keys count from the end, a key
\* outside the list raises IndexError
ListSetItem_mut(tmp, key, val) ==
    [ok |-> TRUE, list |-> Append(tmp, val)]

ListSetItem(tmp, key, val) ==
    IF key \in (-Len(tmp))..(Len(tmp) - 1)
    THEN [ok |-> TRUE,
          list |-> [tmp EXCEPT ![(IF key < 0 THEN key + Len(tmp) ELSE key) + 1]
                        = val]]
    ELSE [ok |-> FALSE, list |-> tmp]

\* `tmp[key] = val` on a dict
DictSetItem(tmp, key, val) ==
    {p \in tmp : p[1] # key} \cup {<<key, val>>}

\* assoc(x, key, val): what it returns (or raises) and x after the call;
\* every branch works on a copy (list(...), dict(...)) of its argument
assoc(x, key, val) ==
    [arg |-> x,
     out |->
        CASE x.kind = "tuple" ->
                 LET tmp == ListSetItem(x.items, key.index, val) IN
                 IF tmp.ok THEN Tuple(tmp.list) ELSE Raised("IndexError")
          [] x.kind = "vector" ->
                 LET tmp == ListSetItem(x.items, key.index, val) IN
                 IF tmp.ok THEN Vector3d(tmp.list[1], tmp.list[2], tmp.list[3])
                 ELSE Raised("IndexError")
          [] x.kind = "pose" ->
                 LET tmp == ListSetItem(to_tuple(x), key.index, val) IN
                 IF tmp.ok THEN Pose(tmp.list) ELSE Raised("IndexError")
          [] x.kind = "record" ->
                 Record([data |-> DictSetItem(x.record, key.name, val)])
          [] OTHER -> x]

Arrays == UNION {{Tuple(items) : items \in [1..n -> AssocNumbers]} :
                 n \in 1..MaxArrayLen}
Vectors == {Vector3d(v[1], v[2], v[3]) : v \in [1..VectorSize -> AssocNumbers]}
Poses == {Pose(v) : v \in [1..PoseSize -> AssocNumbers]}
Records == {Record([record |-> {<<n, f[n]>> : n \in DOMAIN f}]) :
            f \in UNION {[d -> AssocNumbers] : d \in SUBSET FieldNames}}
AssocInputs == Arrays \cup Vectors \cup Poses \cup Records

IndexKeys == (-(PoseSize + 1))..PoseSize

AssocKeysOf(x) ==
    IF x.kind = "record"
    THEN {[index |-> 0, name |-> n] : n \in FieldNames}
    ELSE {[index |-> i, name |-> "a"] : i \in IndexKeys}

\* the key is one the value can be updated at
ValidKey(x, key) ==
    CASE x.kind = "record" -> key.name \in FieldNames
      [] x.kind = "pose" -> key.index \in (-PoseSize)..(PoseSize - 1)
      [] OTHER -> key.index \in (-Len(x.items))..(Len(x.items) - 1)

BInit ==
    /\ aspc = "idle"
    /\ asX = Tuple(<<0>>)
    /\ asBefore = Tuple(<<0>>)
    /\ asKey = [index |-> 0, name |-> "a"]
    /\ asVals = <<0, 0>>
    /\ asOnce = Tuple(<<0>>)
    /\ asInner = Tuple(<<0>>)
    /\ asTwice = Tuple(<<0>>)

\* the program binds x and chooses the key and the two values
AssocBegin(x, key, v1, v2) ==
    /\ aspc = "idle"
    /\ aspc' = "ready"
    /\ asX' = x
    /\ asBefore' = x
    /\ asKey' = key
    /\ asVals' = <<v1, v2>>
    /\ UNCHANGED <<asOnce, asInner, asTwice>>

\* y = assoc(x, k, v2)
AssocOnce ==
    /\ aspc = "ready"
    /\ aspc' = "once"
    /\ LET r == assoc(asX, asKey, asVals[2]) IN
           /\ asOnce' = r.out
           /\ asX' = r.arg
    /\ UNCHANGED <<asBefore, asKey, asVals, asInner, asTwice>>

\* z = assoc(assoc(x, k, v1), k, v2)
AssocTwice ==
    /\ aspc = "once"
    /\ aspc' = "done"
    /\ LET inner == assoc(asX, asKey, asVals[1])
           outer == assoc(inner.out, asKey, asVals[2])
       IN  /\ asInner' = inner.out
           /\ asTwice' = outer.out
           /\ asX' = inner.arg
    /\ UNCHANGED <<asBefore, asKey, asVals, asOnce>>

FrameNames == {"a", "b", "c"}
Points == 1..Cardinality(FrameNames)

\* cga3d.Vector.from_identity()
from_identity == [i \in Points |-> i]

\* t & v
compose(t, v) == [i \in Points |-> t[v[i]]]

\* t.inverse()
inverse(t) == [i \in Points |-> CHOOSE j \in Points : t[j] = i]

\* a reflection and a rotation: they do not commute, and only the
\* reflection is its own inverse
Transforms == {<<2, 1, 3>>, <<2, 3, 1>>}

RelationKeys == {k \in FrameNames \X FrameNames : k[1] # k[2]}

FInit ==
    /\ relations = <<>>
    /\ fsResult = [target |-> "a", source |-> "a", kind |-> "none",
                   value |-> from_identity]

\* `key in self._relations` and `self._relations[key]`
Stored(key) == \E i \in DOMAIN relations : relations[i].key = key
Relation(key) ==
    relations[CHOOSE i \in DOMAIN relations : relations[i].key = key].item

\* FrameSystem.frames
fs_frames ==
    {relations[i].key[1] : i \in DOMAIN relations}
        \cup {relations[i].key[2] : i \in DOMAIN relations}

\* the loop that fills `dist`, relation by relation in the order of the
\* dict; 0 stands for the np.inf of a missing edge
NoEdge == 0

RECURSIVE DistAfter(_)
DistAfter(n) ==
    IF n = 0 THEN [k \in FrameNames \X FrameNames |-> NoEdge]
    ELSE LET ra == relations[n].key[1]
             rb == relations[n].key[2]
         IN  [DistAfter(n - 1) EXCEPT ![<<ra, rb>>] = 1, ![<<rb, ra>>] = 2]

dist == DistAfter(Len(relations))

\* the sequences of distinct frames from start to end
SimplePaths(start, end) ==
    {p \in UNION {[1..n -> FrameNames] : n \in 1..Cardinality(FrameNames)} :
        /\ p[1] = start
        /\ p[Len(p)] = end
        /\ \A i, j \in DOMAIN p : i # j => p[i] # p[j]}

RECURSIVE PathCost(_, _)
PathCost(p, d) ==
    IF Len(p) <= 1 THEN 0
    ELSE d[<<p[1], p[2]>>] + PathCost(Tail(p), d)

\* the paths dijkstra can follow in the matrix d, and those of least cost,
\* one of which its predecessors describe
Walkable(start, end, d) ==
    {p \in SimplePaths(start, end) :
        \A i \in 1..(Len(p) - 1) : d[<<p[i], p[i + 1]>>] # NoEdge}

ShortestPaths(start, end, d) ==
    LET walkable == Walkable(start, end, d) IN
    {p \in walkable : \A q \in walkable : PathCost(p, d) <= PathCost(q, d)}

\* the loop over the chain: for every step from ra to rb the stored
\* relation (ra, rb) if there is one, else the inverse of (rb, ra), composed
\* in the order of the path from start to end
RECURSIVE ComposeAlong_mut(_)
ComposeAlong_mut(p) ==
    IF Len(p) <= 1 THEN from_identity
    ELSE LET ra == p[1]
             rb == p[2]
             t == IF Stored(<<ra, rb>>) THEN Relation(<<ra, rb>>)
                  ELSE inverse(Relation(<<rb, ra>>))
         IN  compose(ComposeAlong_mut(Tail(p)), t)

RECURSIVE ComposeAlong(_)
ComposeAlong(p) ==
    IF Len(p) <= 1 THEN from_identity
    ELSE LET ra == p[1]
             rb == p[2]
             t == IF Stored(<<ra, rb>>) THEN Relation(<<ra, rb>>)
                  ELSE inverse(Relation(<<rb, ra>>))
         IN  compose(t, ComposeAlong(Tail(p)))

Outcome(target, source, kind, value) ==
    [target |-> target, source |-> source, kind |-> kind, value |-> value]

\* FrameSystem._compute: frames_list.index raises ValueError for a frame
\* without relation; an unreachable end has no predecessor (-9999), which
\* is no index of `predecessors`
ComputeOutcomes(start, end) ==
    IF start \notin fs_frames \/ end \notin fs_frames
    THEN {Outcome(start, end, "ValueError", from_identity)}
    ELSE LET shortest == ShortestPaths(start, end, dist) IN
         IF shortest = {}
         THEN {Outcome(start, end, "IndexError", from_identity)}
         ELSE {Outcome(start, end, "value", ComposeAlong(p)) : p \in shortest}

\* FrameSystem.eval
EvalOutcomes(target, source) ==
    IF Stored(<<target, source>>)
    THEN {Outcome(target, source, "value", Relation(<<target, source>>))}
    ELSE ComputeOutcomes(target, source)

\* FrameSystem.__setitem__; an eval made before it is forgotten
SetRelation(key, item) ==
    /\ \/ Stored(key)
       \/ Len(relations) < MaxRelations
    /\ relations' =
           IF Stored(key)
           THEN [i \in DOMAIN relations |->
                    IF relations[i].key = key
                    THEN [key |-> key, item |-> item] ELSE relations[i]]
           ELSE Append(relations, [key |-> key, item |-> item])
    /\ fsResult' = [fsResult EXCEPT !.kind = "none", !.value = from_identity]

FsEval(target, source) ==
    /\ fsResult' \in EvalOutcomes(target, source)
    /\ UNCHANGED relations

\* the transforms a chain over the frames of p can stand for: every step
\* is a stored relation between the two frames, taken as stored or inverted
RECURSIVE ChainValues(_)
ChainValues(p) ==
    IF Len(p) <= 1 THEN {from_identity}
    ELSE LET ra == p[1]
             rb == p[2]
             steps == {Relation(k) : k \in {k \in {<<ra, rb>>} : Stored(k)}}
                      \cup {inverse(Relation(k)) :
                                k \in {k \in {<<rb, ra>>} : Stored(k)}}
         IN  {compose(t, v) : t \in steps, v \in ChainValues(Tail(p))}

\* the compositions of all chains of relations from target to source
AllChainValues(target, source) ==
    UNION {ChainValues(p) : p \in SimplePaths(target, source)}

\* C30 as stated: eval(a, z) is the composition along any chain of
\* relations from a to z, whichever path the search chooses
C30_EvalEqualsAnyChain ==
    (fsResult.kind # "none" /\ fsResult.target # fsResult.source
        /\ AllChainValues(fsResult.target, fsResult.source) # {}) =>
        /\ fsResult.kind = "value"
        /\ \A v \in AllChainValues(fsResult.target, fsResult.source) :
               fsResult.value = v

\* C30 amended: whenever a chain from a to z exists eval(a, z) returns the
\* composition along one of the chains, and it is the composition along
\* every chain when all chains from a to z compose to the same transform
C30_EvalEqualsChainWhenChainsAgree ==
    (fsResult.kind # "none" /\ fsResult.target # fsResult.source
        /\ AllChainValues(fsResult.target, fsResult.source) # {}) =>
        /\ fsResult.kind = "value"
        /\ fsResult.value \in AllChainValues(fsResult.target, fsResult.source)

\* eval has composed a chain of two relations, one of them stored against
\* the direction of the chain, that do not commute
C30_Witness ==
    /\ fsResult.kind = "value"
    /\ fsResult.target = "a" /\ fsResult.source = "c"
    /\ ~Stored(<<"a", "c">>) /\ ~Stored(<<"c", "a">>)
    /\ Stored(<<"a", "b">>) /\ Stored(<<"c", "b">>)
    /\ Relation(<<"a", "b">>) # Relation(<<"c", "b">>)
    /\ fsResult.value = compose(Relation(<<"a", "b">>),
                                inverse(Relation(<<"c", "b">>)))

(***************************************************************************)
(* ActionQueue.trigger_actions (runtime.py), one generator step by step    *)
(***************************************************************************)
PathParameters == {0, 1, 2}

TInit ==
    /\ tpc = "idle"
    /\ tStream = <<>>
    /\ tState = 0
    /\ tPending = <<>>
    /\ tAtState = <<>>
    /\ tIndex = 0
    /\ tCallbacksLeft = 0
    /\ tActive = 0
    /\ tStop = FALSE
    /\ tLog = <<>>

Event(ev, id) == [ev |-> ev, id |-> id]

\* the test of the loop over `actions`
IsDue_mut(action_container, path_parameter) == TRUE

IsDue(action_container, path_parameter) ==
    action_container.path_parameter <= path_parameter

\* trigger_actions is called with a stream of motion states and a list of
\* actions, which it sorts by path parameter; cb interrupts are active
TriggerBegin(locations, states, cb) ==
    /\ tpc = "idle"
    /\ tpc' = "next"
    /\ tStream' = states
    /\ tPending' = SortedActions([i \in DOMAIN locations |->
                                     [id |-> i, path_parameter |-> locations[i]]])
    /\ tActive' = cb
    /\ UNCHANGED <<tState, tAtState, tIndex, tCallbacksLeft, tStop, tLog>>

\* the stop event is set while the generator is running
TriggerSetStop ==
    /\ tpc \in {"next", "callbacks", "fire"}
    /\ ~tStop
    /\ tStop' = TRUE
    /\ UNCHANGED <<tpc, tStream, tState, tPending, tAtState, tIndex,
                   tCallbacksLeft, tActive, tLog>>

\* `async for motion_state in motion_iter` delivers a state; the stop event
\* is tested and the loop is left when it is set
TriggerNextState ==
    /\ tpc = "next"
    /\ tStream # <<>>
    /\ tState' = Head(tStream)
    /\ tStream' = Tail(tStream)
    /\ tLog' = <<Event("check", 0)>>
    /\ tAtState' = tPending
    /\ tIndex' = 0
    /\ IF tStop
       THEN tpc' = "ended" /\ UNCHANGED tCallbacksLeft
       ELSE tpc' = "callbacks" /\ tCallbacksLeft' = tActive
    /\ UNCHANGED <<tPending, tActive, tStop>>

\* _run_callbacks: `await callback(...)` for the next active interrupt
TriggerCallback ==
    /\ tpc = "callbacks"
    /\ tCallbacksLeft > 0
    /\ tCallbacksLeft' = tCallbacksLeft - 1
    /\ tLog' = Append(tLog, Event("callback", 0))
    /\ UNCHANGED <<tpc, tStream, tState, tPending, tAtState, tIndex, tActive,
                   tStop>>

\* _run_callbacks has returned; the loop over `actions` begins
TriggerCallbacksDone ==
    /\ tpc = "callbacks"
    /\ tCallbacksLeft = 0
    /\ tpc' = "fire"
    /\ UNCHANGED <<tStream, tState, tPending, tAtState, tIndex,
                   tCallbacksLeft, tActive, tStop, tLog>>

\* one pass of the loop: the action is due, run_action is awaited
TriggerFire ==
    /\ tpc = "fire"
    /\ tIndex < Len(tPending)
    /\ IsDue(tPending[tIndex + 1], tState)
    /\ tLog' = Append(tLog, Event("fire", tPending[tIndex + 1].id))
    /\ tIndex' = tIndex + 1
    /\ UNCHANGED <<tpc, tStream, tState, tPending, tAtState, tCallbacksLeft,
                   tActive, tStop>>

\* the loop ends (list exhausted or `break`), the fired prefix is deleted
\* and the state is yielded
TriggerYield ==
    /\ tpc = "fire"
    /\ IF tIndex = Len(tPending) THEN TRUE
       ELSE ~IsDue(tPending[tIndex + 1], tState)
    /\ tPending' = SubSeq(tPending, tIndex + 1, Len(tPending))
    /\ tLog' = Append(tLog, Event("yield", 0))
    /\ tpc' = "next"
    /\ UNCHANGED <<tStream, tState, tAtState, tIndex, tCallbacksLeft, tActive,
                   tStop>>

\* the stream is exhausted
TriggerEnds ==
    /\ tpc = "next"
    /\ tStream = <<>>
    /\ tpc' = "ended"
    /\ UNCHANGED <<tStream, tState, tPending, tAtState, tIndex,
                   tCallbacksLeft, tActive, tStop, tLog>>

EventRank(ev) ==
    CASE ev = "check" -> 1 [] ev = "callback" -> 2 [] ev = "fire" -> 3
      [] ev = "yield" -> 4

EventsOf(ev) == {i \in DOMAIN tLog : tLog[i].ev = ev}

\* the state being handled has been yielded
Yielded == tLog # <<>> /\ tLog[Len(tLog)].ev = "yield"

\* C31: for each motion state the generator first tests the stop event,
\* then awaits every active callback, then fires exactly the pending
\* actions whose path parameter is at most the state's, and only then
\* yields the state; no action above the state's path parameter is fired
C31_StatePassesCheckCallbacksActionsYield ==
    /\ tLog # <<>> => tLog[1].ev = "check"
    /\ \A i, j \in DOMAIN tLog :
           i < j => /\ EventRank(tLog[i].ev) <= EventRank(tLog[j].ev)
                    /\ tLog[j].ev \notin {"check", "yield"}
                           \/ tLog[i].ev # tLog[j].ev
    /\ \A i \in EventsOf("fire") :
           \E k \in DOMAIN tAtState :
               /\ tAtState[k].id = tLog[i].id
               /\ tAtState[k].path_parameter <= tState
    /\ Yielded =>
           /\ Cardinality(EventsOf("callback")) = tActive
           /\ {tLog[i].id : i \in EventsOf("fire")} =
                  {tAtState[k].id : k \in {k \in DOMAIN tAtState :
                                            tAtState[k].path_parameter <= tState}}
           /\ Cardinality(EventsOf("fire")) =
                  Cardinality({k \in DOMAIN tAtState :
                                 tAtState[k].path_parameter <= tState})
           /\ \A k \in DOMAIN tPending : tPending[k].path_parameter > tState

\* a state has been yielded after a callback and one fired action while
\* another action stays pending
C31_Witness ==
    /\ Yielded
    /\ EventsOf("callback") # {}
    /\ EventsOf("fire") # {}
    /\ tPending # <<>>

(***************************************************************************)
(* Motion recordings and execution results (runtime.py 119-127, 414-422;   *)
(* runner.py 253-338).  motion_group_recordings is a class attribute of    *)
(* ExecutionContext initialised to one dict object; __init__ (runtime.py   *)
(* 128-173) never assigns it, so every context of the process reads and    *)
(* writes the same dict.  A motion state is represented by its number in   *)
(* the order of streaming.                                                 *)
(***************************************************************************)
ERInit ==
    /\ erPc = "idle"
    /\ erRecordings = [g \in Robots |-> <<>>]
    /\ erRun = 0
    /\ erRunStart = 0
    /\ erIssued = 0
    /\ erDrain = [g \in Robots |-> <<>>]
    /\ erDrains = [g \in Robots |-> <<>>]
    /\ erRunDrains = 0
    /\ erResults = <<>>
    /\ erStarts = <<>>

\* ProgramRunner._run creates the ExecutionContext of the run (runner.py
\* 266-280); the constructor leaves motion_group_recordings alone.
ContextCreated ==
    /\ erPc = "idle"
    /\ erRun < MaxRuns
    /\ erPc' = "running"
    /\ erRun' = erRun + 1
    /\ erRunStart' = erIssued
    /\ erRunDrains' = 0
    /\ UNCHANGED <<erRecordings, erIssued, erDrain, erDrains, erResults, erStarts>>

\* ActionQueue._run reaches `async for motion_state in streamer`.
DrainBegin ==
    /\ erPc = "running"
    /\ erRunDrains < MaxDrains
    /\ erPc' = "draining"
    /\ erDrain' = [g \in Robots |-> <<>>]
    /\ UNCHANGED <<erRecordings, erRun, erRunStart, erIssued, erDrains, erRunDrains,
                   erResults, erStarts>>

\* recordings[id][-1].append(motion_state)
AppendToLast(paths, motion_state) ==
    [paths EXCEPT ![Len(paths)] = Append(@, motion_state)]

\* One iteration of the streaming loop (runtime.py 417-422).
RecordState(g) ==
    /\ erPc = "draining"
    /\ erIssued < MaxStates
    /\ erIssued' = erIssued + 1
    /\ erRecordings' =
           [erRecordings EXCEPT
               ![g] = AppendToLast(IF erRecordings[g] = <<>> THEN << <<>> >> ELSE @,
                                   erIssued + 1)]
    /\ erDrain' = [erDrain EXCEPT ![g] = Append(@, erIssued + 1)]
    /\ UNCHANGED <<erPc, erRun, erRunStart, erDrains, erRunDrains, erResults, erStarts>>

\* The streamer is exhausted; _run returns.
DrainEnd ==
    /\ erPc = "draining"
    /\ erPc' = "running"
    /\ erRunDrains' = erRunDrains + 1
    /\ erDrains' = [g \in Robots |->
                       IF erDrain[g] = <<>> THEN erDrains[g]
                       ELSE Append(erDrains[g], erDrain[g])]
    /\ UNCHANGED <<erRecordings, erRun, erRunStart, erIssued, erDrain, erResults, erStarts>>

\* The paths of the ExecutionResult built for each item of the dict
\* (runner.py 314-323); a group without key has no ExecutionResult (<<>>).
execution_results(recordings) == [g \in Robots |-> recordings[g]]

\* The finally part of ProgramRunner._run.
RunEnd ==
    /\ erPc = "running"
    /\ erPc' = "idle"
    /\ erResults' = Append(erResults, execution_results(erRecordings))
    /\ erStarts' = Append(erStarts, erRunStart)
    /\ UNCHANGED <<erRecordings, erRun, erRunStart, erIssued, erDrain, erDrains, erRunDrains>>

\* C32: between drains, the recording of every group has one path per drain
\* that streamed states for it, and the k-th path holds exactly the states
\* of the k-th such drain in streamed order.
C32_OnePathPerDrain ==
    erPc # "draining" => \A g \in Robots : erRecordings[g] = erDrains[g]

\* The motion states found in the execution results of the finished run r.
StatesOfResult(r) ==
    UNION {UNION {Range(erResults[r][g][k]) : k \in DOMAIN erResults[r][g]} : g \in Robots}

\* C35: the execution results of every finished run contain only motion
\* states that were streamed after that run had started.
C35_ResultsOnlyOwnStates ==
    \A r \in DOMAIN erResults : \A s \in StatesOfResult(r) : s > erStarts[r]

(***************************************************************************)
(* The on_state_change callback (runner.py 219-338, 340-385).  _run awaits *)
(* it in two places: right after `async with robot_cell` has been entered  *)
(* and at the end of the `finally` block.  The actions are those of the    *)
(* ProgramRunner above; this part only observes them.                      *)
(***************************************************************************)
NInit ==
    /\ on_state_change = <<>>
    /\ state_changes = <<>>

\* an assignment to self._program_run.state that changes it
TrackState ==
    state_changes' = IF state' # state THEN Append(state_changes, state')
                     ELSE state_changes

\* `await on_state_change()`: the callback receives self._program_run and
\* reads the state the run has at that moment
Invoke == on_state_change' = Append(on_state_change, state)

(***************************************************************************)
(* Cancellation of a run and the statements in progress (metamodel.py      *)
(* 98-103; runner.py 266-311; utils/runtime.py 19-43).  Rule.__call__      *)
(* returns `await asyncio.shield(interceptor_chain)`: the statement runs   *)
(* in a task of its own, and a cancellation of the awaiting task raises    *)
(* CancelledError at the await while the inner task goes on.  Program      *)
(* calls its body, a Rule, so the whole body runs in such a task until the *)
(* event loop of the thread is closed.                                     *)
(***************************************************************************)
StmtKinds == {"assign", "write"}

Programs == UNION {[1..n -> StmtKinds] : n \in 1..MaxBodyStmts}

HInit ==
    /\ hpc = "idle"
    /\ hProgram = <<>>
    /\ hNext = 1
    /\ hState = "NOT_STARTED"
    /\ hStopSet = FALSE
    /\ hEvaluated = 0
    /\ hIssued = 0

\* _run_program: state = RUNNING, then `await program(execution_context)`
\* creates the task of the body and waits for it
ShieldedCall(program) ==
    /\ hpc = "idle"
    /\ hState = "NOT_STARTED"
    /\ hProgram' = program
    /\ hState' = "RUNNING"
    /\ hpc' = "prog"
    /\ UNCHANGED <<hNext, hStopSet, hEvaluated, hIssued>>

\* the event loop of the thread still runs tasks
LoopRuns == hpc \in {"prog", "stopping", "finally", "exit"}

\* the task of the body evaluates its next statement; it is scheduled by
\* the event loop whenever the task of _run is suspended
BodyStep ==
    /\ LoopRuns
    /\ hNext <= Len(hProgram)
    /\ hNext' = hNext + 1
    /\ hEvaluated' = hEvaluated + 1
    /\ hIssued' = IF hProgram[hNext] = "write" THEN hIssued + 1 ELSE hIssued
    /\ UNCHANGED <<hpc, hProgram, hState, hStopSet>>

\* ProgramRunner.stop(): self._stop_event.set()
StopSet ==
    /\ hpc = "prog"
    /\ ~hStopSet
    /\ hStopSet' = TRUE
    /\ UNCHANGED <<hpc, hProgram, hNext, hState, hEvaluated, hIssued>>

\* the body returned: the `else` branch of the inner try of _run
BodyReturns ==
    /\ hpc = "prog"
    /\ hNext > Len(hProgram)
    /\ hState' = IF hStopSet THEN "STOPPED" ELSE "COMPLETED"
    /\ hpc' = "finally"
    /\ UNCHANGED <<hProgram, hNext, hStopSet, hEvaluated, hIssued>>

\* stoppable_run cancels the run scope: CancelledError is raised at the
\* await of the shield, `except cancelled` awaits robot_cell.stop()
CancelRaised ==
    /\ hpc = "prog"
    /\ hStopSet
    /\ hpc' = "stopping"
    /\ UNCHANGED <<hProgram, hNext, hState, hStopSet, hEvaluated, hIssued>>

\* robot_cell.stop() returned: state = STOPPED and re-raise
CellStopped ==
    /\ hpc = "stopping"
    /\ hState' = "STOPPED"
    /\ hpc' = "finally"
    /\ UNCHANGED <<hProgram, hNext, hStopSet, hEvaluated, hIssued>>

\* the `finally` block with `await on_state_change()`
FinallyBlock ==
    /\ hpc = "finally"
    /\ hpc' = "exit"
    /\ UNCHANGED <<hProgram, hNext, hState, hStopSet, hEvaluated, hIssued>>

\* the task group and the robot cell are left, anyio.run returns and the
\* event loop cancels the tasks that are left
LoopClosed ==
    /\ hpc = "exit"
    /\ hpc' = "closed"
    /\ UNCHANGED <<hProgram, hNext, hState, hStopSet, hEvaluated, hIssued>>

\* C34: while the state of the run is STOPPED no statement is evaluated and
\* no action is issued to a device
C34_NothingRunsOnceStopped ==
    [][hState = "STOPPED" => (hEvaluated' = hEvaluated /\ hIssued' = hIssued)]_vars

(***************************************************************************)
(* Calls of functions and interrupts (metamodel.py 1424-1500; runtime.py   *)
(* 228-232).  The closure runs the body inside                             *)
(* `with context.new_call_frame(store, init_locals)`; new_call_frame is a  *)
(* generator context manager that pushes, yields and pops, without         *)
(* try/finally, and the closure catches ReturnSignal inside the with block.*)
(***************************************************************************)
NoCall == [how |-> "none", before |-> <<>>, after |-> <<>>]

CSInit ==
    /\ csStack = <<0>>
    /\ csPending = <<>>
    /\ csNextId = 0
    /\ csSignal = "none"
    /\ csLeft = NoCall

Front(s) == SubSeq(s, 1, Len(s) - 1)

\* new_call_frame up to its yield: self.call_stack.push(store.descent(...))
CallBegin ==
    /\ csSignal = "none"
    /\ csNextId < MaxCalls
    /\ csNextId' = csNextId + 1
    /\ csStack' = Append(csStack, csNextId + 1)
    /\ csPending' = Append(csPending, csStack)
    /\ UNCHANGED <<csSignal, csLeft>>

\* what new_call_frame does when an exception is thrown into it at the
\* yield: the generator has no handler, self.call_stack.pop() is skipped
AfterThrow(frames_now) == frames_now

\* the body reaches its end or raises ReturnSignal, which the closure
\* catches inside the with block: new_call_frame resumes after the yield
\* and pops
BodyEnds(how) ==
    /\ csSignal = "none"
    /\ csPending # <<>>
    /\ csStack' = Front(csStack)
    /\ csLeft' = [how |-> how, before |-> csPending[Len(csPending)],
                  after |-> Front(csStack)]
    /\ csPending' = Front(csPending)
    /\ UNCHANGED <<csNextId, csSignal>>

\* the body raises an error or a BreakSignal: it passes the closure's
\* `except ReturnSignal` and leaves the with block through the generator
BodyLeftBySignal(how) ==
    /\ csSignal = "none"
    /\ csPending # <<>>
    /\ csStack' = AfterThrow(csStack)
    /\ csLeft' = [how |-> how, before |-> csPending[Len(csPending)],
                  after |-> AfterThrow(csStack)]
    /\ csPending' = Front(csPending)
    /\ csSignal' = how
    /\ UNCHANGED csNextId

\* the signal leaves the enclosing call in the same way
SignalPropagates ==
    /\ csSignal # "none"
    /\ csPending # <<>>
    /\ csStack' = AfterThrow(csStack)
    /\ csLeft' = [how |-> csSignal, before |-> csPending[Len(csPending)],
                  after |-> AfterThrow(csStack)]
    /\ csPending' = Front(csPending)
    /\ UNCHANGED <<csNextId, csSignal>>

\* an enclosing statement handles it: `except:` of a sync block for an
\* error (metamodel.py 372-384), a loop for a BreakSignal
SignalCaught ==
    /\ csSignal # "none"
    /\ csSignal' = "none"
    /\ UNCHANGED <<csStack, csPending, csNextId, csLeft>>

\* C36: after a function or interrupt body has been left, by its end, by
\* return, by an error or by a break signal, the call stack holds the same
\* scopes as before the call
C36_StackRestoredAfterCall ==
    csLeft.how # "none" => csLeft.after = csLeft.before

(***************************************************************************)
(* Foreign functions (runtime.py 128-173; metamodel.py 1337-1421).         *)
(* ExecutionContext.__init__ registers every foreign function with         *)
(* metamodel.register_builtin_func, which writes FunctionCall._builtins, a *)
(* dict that is a class attribute; nothing removes an entry.               *)
(***************************************************************************)
ForeignNames == {"f", "g"}

\* names registered when the builtins package is imported
Library == {"sin"}

CallNames == ForeignNames \cup Library \cup {"h"}

NoFunctionCall == [name |-> "none", outcome |-> "none"]

XInit ==
    /\ builtins_ = Library
    /\ xRun = 0
    /\ xGiven = {}
    /\ xStore = {}
    /\ xCall = NoFunctionCall

\* register_builtin_func for each given function: _builtins[name] = ...
Registered(registry, foreign_functions) == registry \cup foreign_functions

\* ProgramRunner._run creates the ExecutionContext of a run with
\* foreign_functions; the store of the run is new
ContextInit(foreign_functions) ==
    /\ xRun < MaxRuns
    /\ xRun' = xRun + 1
    /\ builtins_' = Registered(builtins_, foreign_functions)
    /\ xGiven' = foreign_functions
    /\ xStore' = {}
    /\ xCall' = NoFunctionCall

\* FunctionDefinition.call: context.store[name] = Closure(...)
DefineFunction(name) ==
    /\ xRun > 0
    /\ name \notin xStore
    /\ xStore' = xStore \cup {name}
    /\ UNCHANGED <<builtins_, xRun, xGiven, xCall>>

\* FunctionCall.call: _builtins first, then the store, else NameError_
Resolve(name) ==
    IF name \in builtins_ THEN "builtin"
    ELSE IF name \in xStore THEN "closure"
    ELSE "NameError"

FunctionCall(name) ==
    /\ xRun > 0
    /\ xCall' = [name |-> name, outcome |-> Resolve(name)]
    /\ UNCHANGED <<builtins_, xRun, xGiven, xStore>>

\* C39: a call of a foreign function's name by a run that was not given that
\* function, and whose program does not define the name, gets NameError
C39_ForeignFunctionOnlyInItsRun ==
    (/\ xCall.name \in ForeignNames
     /\ xCall.name \notin xGiven
     /\ xCall.name \notin xStore) => xCall.outcome = "NameError"

(***************************************************************************)
(* sys.stdout (runner.py 340-385; utils/runtime.py 9-16).  The thread of   *)
(* each runner executes its program inside                                 *)
(* `with contextlib.redirect_stdout(Tee(sys.stdout))`: on entry the        *)
(* current sys.stdout is saved and replaced by a Tee around it, on exit    *)
(* the saved stream is assigned back.  sys.stdout is one variable of the   *)
(* process, shared by all threads.                                         *)
(***************************************************************************)
Runners == 1..MaxRunners

Original == 0

OInit ==
    /\ sys_stdout = Original
    /\ opc = [i \in Runners |-> "idle"]
    /\ old_target = [i \in Runners |-> Original]
    /\ tee_value = [i \in Runners |-> 0]
    /\ written = 0

\* Tee(sys.stdout) is built, then redirect_stdout.__enter__ saves
\* sys.stdout and assigns the Tee
RedirectEnter(i) ==
    /\ opc[i] = "idle"
    /\ old_target' = [old_target EXCEPT ![i] = sys_stdout]
    /\ sys_stdout' = i
    /\ opc' = [opc EXCEPT ![i] = "running"]
    /\ UNCHANGED <<tee_value, written>>

\* the Tees a string written to stream passes through: Tee.write writes to
\* self.stream first, then to itself
RECURSIVE TeeChain(_)
TeeChain(stream) ==
    IF stream = Original THEN {} ELSE {stream} \cup TeeChain(old_target[stream])

\* print(...) of a program or of any other thread: sys.stdout.write
StdoutWrite ==
    /\ written + 1 <= MaxWrites
    /\ \E i \in Runners : opc[i] = "running"
    /\ written' = written + 1
    /\ tee_value' = [i \in Runners |->
                        IF i \in TeeChain(sys_stdout) THEN tee_value[i] + 1
                        ELSE tee_value[i]]
    /\ UNCHANGED <<sys_stdout, opc, old_target>>

\* the stream redirect_stdout.__exit__ assigns to sys.stdout
Restored(i) == old_target[i]

\* stoppable_run has returned or raised: redirect_stdout.__exit__
RedirectExit(i) ==
    /\ opc[i] = "running"
    /\ sys_stdout' = Restored(i)
    /\ opc' = [opc EXCEPT ![i] = "finished"]
    /\ UNCHANGED <<old_target, tee_value, written>>

\* C40: when every runner that was started has finished, sys.stdout is the
\* stream it was before any runner was started
C40_StdoutRestored ==
    (/\ \A i \in Runners : opc[i] # "running"
     /\ \E i \in Runners : opc[i] = "finished") => sys_stdout = Original

(***************************************************************************)
(* SyncContext.call (metamodel.py): `do: A sync: B except: C`              *)
(***************************************************************************)
\* what a body or the drain can raise: UserError (a raise statement, in the
\* do body or in an interrupt body run by the drain), RobotMotionError (the
\* robot fails to plan or to move), MotionError of wandelscript (push: tool
\* change or full buffer; _update_path_history in the drain) and any other
\* error, for which NameError stands
Errors == {"UserError", "RobotMotionError", "MotionError", "NameError"}

\* an except clause that names MotionError of wandelscript
Caught_mut == {"MotionError", "UserError"}

\* the except clause of SyncContext.call
Caught == {"RobotMotionError", "UserError"}

SInit ==
    /\ stmt = [do_body |-> FALSE, sync_body |-> FALSE,
               exception_handler |-> FALSE]
    /\ spc = "idle"
    /\ doErr = None
    /\ drainErr = None
    /\ ranB = FALSE
    /\ ranC = FALSE
    /\ err = None

\* an error e raised inside the try block: the except clause
Catch(e) ==
    IF e \in Caught /\ stmt.exception_handler
    THEN /\ spc' = "handler"
         /\ UNCHANGED err
    ELSE /\ spc' = "raised"
         /\ err' = e

\* a sync block statement is reached
SyncContextBegin(d, b, c) ==
    /\ spc \in {"idle", "returned"}
    /\ stmt' = [do_body |-> d, sync_body |-> b, exception_handler |-> c]
    /\ spc' = IF d THEN "do" ELSE "sync"
    /\ doErr' = None
    /\ drainErr' = None
    /\ ranB' = FALSE
    /\ ranC' = FALSE
    /\ err' = None

\* `await self.do_body(context)`
DoBody(outcome) ==
    /\ spc = "do"
    /\ doErr' = outcome
    /\ IF outcome = "ok"
       THEN spc' = "sync" /\ UNCHANGED err
       ELSE Catch(outcome)
    /\ UNCHANGED <<stmt, drainErr, ranB, ranC>>

\* `await context.sync()` and the else clause when there is no sync body
Drain(outcome) ==
    /\ spc = "sync"
    /\ drainErr' = outcome
    /\ IF outcome = "ok"
       THEN /\ spc' = IF stmt.sync_body THEN "sync_body" ELSE "returned"
            /\ UNCHANGED err
       ELSE Catch(outcome)
    /\ UNCHANGED <<stmt, doErr, ranB, ranC>>

\* `await self.sync_body(context)` in the else clause
SyncBody(outcome) ==
    /\ spc = "sync_body"
    /\ ranB' = TRUE
    /\ IF outcome = "ok"
       THEN spc' = "returned" /\ UNCHANGED err
       ELSE spc' = "raised" /\ err' = outcome
    /\ UNCHANGED <<stmt, doErr, drainErr, ranC>>

\* `await self.exception_handler(context)` in the except clause
ExceptionHandler(outcome) ==
    /\ spc = "handler"
    /\ ranC' = TRUE
    /\ IF outcome = "ok"
       THEN spc' = "returned" /\ UNCHANGED err
       ELSE spc' = "raised" /\ err' = outcome
    /\ UNCHANGED <<stmt, doErr, drainErr, ranB>>

\* the statement has been left, by return or by an error
SyncContextLeft == spc \in {"returned", "raised"}

\* the error raised inside the try block, None if none was
TryError ==
    IF doErr \in Errors THEN doErr
    ELSE IF drainErr \in Errors THEN drainErr ELSE None

Settings == {"velocity"}
Values == {"v1", "v2"}
Unset == "unset"
\* MotionSettings.model_fields[name].default
Default == "default"

\* ctx.store.get(varname, default)
Get(store, name) == IF store[name] = Unset THEN Default ELSE store[name]

\* Store.get_motion_settings: the settings a motion is queued with
get_motion_settings(store) == [name \in Settings |-> Get(store, name)]

\* the modifier calls one statement can carry
ModifierCall == [name : Settings, value : Values]
ModifierLists == UNION {[1..k -> ModifierCall] : k \in 1..MaxModifiers}

\* Modifier.call: the modifiers run in written order; each stores the
\* previous value of its setting in its undo closure (make_settings_modifier)
RECURSIVE ApplyModifiers(_, _, _)
ApplyModifiers(store, exit_funcs, mods) ==
    IF mods = <<>> THEN [store |-> store, exit_funcs |-> exit_funcs]
    ELSE LET m == Head(mods) IN
         ApplyModifiers([store EXCEPT ![m.name] = m.value],
                        Append(exit_funcs,
                               [name |-> m.name,
                                previous |-> Get(store, m.name)]),
                        Tail(mods))

\* on_exit of Modifier.call: `for f in exit_funcs: await f(context)`
RECURSIVE on_exit(_, _)
on_exit(store, exit_funcs) ==
    IF exit_funcs = <<>> THEN store
    ELSE on_exit([store EXCEPT ![Head(exit_funcs).name] =
                                   Head(exit_funcs).previous],
                 Tail(exit_funcs))

MInit ==
    /\ settings = [name \in Settings |-> Unset]
    /\ blocks = <<>>
    /\ left = [how |-> "none", before |-> get_motion_settings(settings),
               after |-> get_motion_settings(settings)]
    /\ queued = get_motion_settings(settings)

\* Context.call up to the body: `on_exit = await self.modifier(context)`
EnterWith(mods) ==
    /\ Len(blocks) < MaxDepth
    /\ LET res == ApplyModifiers(settings, <<>>, mods) IN
       /\ settings' = res.store
       /\ blocks' = Append(blocks, [exit_funcs |-> res.exit_funcs,
                                    before |-> get_motion_settings(settings)])
    /\ UNCHANGED <<left, queued>>

\* Context.call: the body has returned, `await on_exit(context)`
ExitWith ==
    /\ blocks # <<>>
    /\ LET b == blocks[Len(blocks)] IN
       /\ settings' = on_exit(settings, b.exit_funcs)
       /\ left' = [how |-> "normal", before |-> b.before,
                   after |-> get_motion_settings(settings')]
    /\ blocks' = SubSeq(blocks, 1, Len(blocks) - 1)
    /\ UNCHANGED queued

\* Context.call: the body raises an error or a break/return signal, which
\* leaves Context.call at `await self.body(context)`
LeaveWithBySignal(how) ==
    /\ blocks # <<>>
    /\ LET b == blocks[Len(blocks)] IN
       left' = [how |-> how, before |-> b.before,
                after |-> get_motion_settings(settings)]
    /\ blocks' = SubSeq(blocks, 1, Len(blocks) - 1)
    /\ UNCHANGED <<settings, queued>>

\* Motion.call without modifier: the connector queues the motion with the
\* settings of the store
Move ==
    /\ queued' = get_motion_settings(settings)
    /\ UNCHANGED <<settings, blocks, left>>

\* Motion.call with a modifier.  path "pushed": the last lines of call, the
\* connector and then on_exit; "frame_relation": `move [robot | tool] ...`,
\* the connector and `return`; "raised": an error before the connector has
\* queued anything (no tool, wrong robot, MotionError of push)
MoveWith(mods, path) ==
    /\ LET res == ApplyModifiers(settings, <<>>, mods) IN
       /\ queued' = IF path = "raised" THEN queued
                    ELSE get_motion_settings(res.store)
       /\ settings' = IF path = "pushed"
                      THEN on_exit(res.store, res.exit_funcs)
                      ELSE res.store
       /\ left' = [how |-> path, before |-> get_motion_settings(settings),
                   after |-> get_motion_settings(settings')]
    /\ UNCHANGED blocks

\* C15: after a `with` block whose suite has ended, every motion setting has
\* the value it had before the block, also when two modifiers of the
\* statement change the same setting
C15_WithBlockRestoresSettings ==
    left.how = "normal" => left.after = left.before

\* C16: after a `with` block has been left by an error or by a break or
\* return signal, no setting keeps its modified value
C16_UndoRunsOnSignal ==
    left.how \in {"error", "break", "return"} =>
        left.after = left.before

\* C17: after a move with a modifier, on every exit path of the statement,
\* the settings equal their values before it
C17_MoveModifierIsLocal ==
    left.how \in {"pushed", "frame_relation", "raised"} =>
        left.after = left.before

(***************************************************************************)
(* PlannableActionQueue (runtime.py) under ProgramRunner._run (runner.py)  *)
(***************************************************************************)
\* the actions Read.call, Write.call and Call.call build, and the type of
\* the device they address
PlanActions ==
    { [cls |-> "ReadAction", device |-> "database"],
      [cls |-> "ReadAction", device |-> "io"],
      [cls |-> "ReadPoseAction", device |-> "robot"],
      [cls |-> "WriteAction", device |-> "io"],
      [cls |-> "CallAction", device |-> "io"] }

\* PlannableActionQueue.run_action: TRUE when the action is passed on to
\* run_action of the device, FALSE when NotPlannableError is raised
Plannable(action) ==
    action.cls = "ReadAction" /\ action.device \in {"database"}

PInit ==
    /\ plRecord = [r \in Robots |-> [motions |-> 0, actions |-> <<>>]]
    /\ plDevLog = <<>>
    /\ plIssued = 0
    /\ plRaised = 0
    /\ plState = "RUNNING"
    /\ plStmts = 0

\* ActionQueue.is_empty on the plan-only queue
pl_is_empty ==
    \A r \in Robots : plRecord[r].motions = 0 /\ plRecord[r].actions = <<>>

PlanStatement ==
    /\ plState = "RUNNING"
    /\ plStmts < MaxPlanStmts
    /\ plStmts' = plStmts + 1

\* run_action of the plan-only queue, called by a statement of the program:
\* the action reaches its device, or NotPlannableError leaves _run_program
\* and ProgramRunner._run handles it (_handle_general_exception)
PlanRunAction(action) ==
    IF Plannable(action)
    THEN /\ plDevLog' = Append(plDevLog, action)
         /\ UNCHANGED <<plRaised, plState>>
    ELSE /\ plRaised' = plRaised + 1
         /\ plState' = "FAILED"
         /\ UNCHANGED plDevLog

\* a move of robot r: the motion is collected
PlanMove(r) ==
    /\ PlanStatement
    /\ plRecord' = [plRecord EXCEPT ![r].motions = @ + 1]
    /\ UNCHANGED <<plDevLog, plIssued, plRaised, plState>>

\* Read.call and Call.call: run_action at once
PlanReadOrCall(action) ==
    /\ action.cls # "WriteAction"
    /\ PlanStatement
    /\ plIssued' = IF Plannable(action) THEN plIssued ELSE plIssued + 1
    /\ PlanRunAction(action)
    /\ UNCHANGED plRecord

\* Write.call with r the active robot: run_action when the queue is empty,
\* attach_action otherwise
PlanWrite(r) ==
    LET action == [cls |-> "WriteAction", device |-> "io"] IN
    /\ PlanStatement
    /\ plIssued' = plIssued + 1
    /\ IF pl_is_empty
       THEN PlanRunAction(action) /\ UNCHANGED plRecord
       ELSE /\ plRecord' = [plRecord EXCEPT ![r].actions = Append(@, action)]
            /\ UNCHANGED <<plDevLog, plRaised, plState>>

\* ActionQueue._run on the plan-only queue (a sync, or the sync at the end
\* of the program when last): a buffer with motions is planned and its
\* attached actions are passed to run_action, a buffer without motions is
\* skipped; then _record is cleared.  The program that ends becomes
\* COMPLETED (ProgramRunner._run, else branch).
PlanDrain(last) ==
    /\ plState = "RUNNING"
    /\ last \/ ~pl_is_empty
    /\ LET run == {r \in Robots : plRecord[r].motions > 0
                                  /\ plRecord[r].actions # <<>>} IN
       IF run # {}
       THEN /\ plRaised' = plRaised + 1
            /\ plState' = "FAILED"
            /\ UNCHANGED plRecord
       ELSE /\ plRecord' = [r \in Robots |-> [motions |-> 0, actions |-> <<>>]]
            /\ plState' = IF last THEN "COMPLETED" ELSE "RUNNING"
            /\ UNCHANGED plRaised
    /\ UNCHANGED <<plDevLog, plIssued, plStmts>>

\* C18: with the plan-only queue only reads of the configuration device
\* reach a device, and a run in which the program issued any other read,
\* a write or a call does not end COMPLETED: the action raised
\* NotPlannableError and the run is FAILED
C18_PlanOnlyRunsNoSideEffects ==
    /\ \A i \in DOMAIN plDevLog :
           plDevLog[i] = [cls |-> "ReadAction", device |-> "database"]
    /\ (plState # "RUNNING" /\ plIssued > 0) =>
           (plState = "FAILED" /\ plRaised > 0)

(***************************************************************************)
(* A stop request during a drain: ActionQueue.run, _run, trigger_actions   *)
(* (runtime.py) and stoppable_run (utils/runtime.py)                       *)
(***************************************************************************)
DInit ==
    /\ dpc = "idle"
    /\ dStates = 0
    /\ dCallbacks = 0
    /\ dActions = 0
    /\ nCallbacks = 0
    /\ stop_event = FALSE
    /\ stopper = "idle"
    /\ cell_stops = 0
    /\ executed = 0

Draining == dpc \in {"immediate", "top", "callbacks", "actions"}

\* ActionQueue.run: stoppable_run starts the task of _run and the task of
\* stopper().  _run has planned a trajectory of n states with k attached
\* actions while cb interrupts are active, and stands before the loop that
\* runs container.actions
RunBegin(n, k, cb) ==
    /\ dpc = "idle"
    /\ ~stop_event
    /\ dpc' = "immediate"
    /\ dStates' = n
    /\ dActions' = k
    /\ nCallbacks' = cb
    /\ stopper' = "waiting"
    /\ UNCHANGED <<dCallbacks, stop_event, cell_stops, executed>>

\* ProgramRunner.stop: the stopper thread sets the event while the sync is
\* draining
SetStopEvent ==
    /\ Draining
    /\ ~stop_event
    /\ stop_event' = TRUE
    /\ UNCHANGED <<dpc, dStates, dCallbacks, dActions, nCallbacks, stopper,
                   cell_stops, executed>>

\* stopper(): `await stop_event.wait()` returns, robot_cell.stop() is called
StopperCallsStop ==
    /\ stopper = "waiting"
    /\ stop_event
    /\ stopper' = "stopping"
    /\ cell_stops' = cell_stops + 1
    /\ UNCHANGED <<dpc, dStates, dCallbacks, dActions, nCallbacks, stop_event,
                   executed>>

\* waiter of stoppable_run: robot_cell.stop() has returned, run_scope.cancel()
\* ends the task of _run at the await it stands at
RunScopeCancel ==
    /\ stopper = "stopping"
    /\ stopper' = "returned"
    /\ dpc' = IF Draining THEN "cancelled" ELSE dpc
    /\ UNCHANGED <<dStates, dCallbacks, dActions, nCallbacks, stop_event,
                   cell_stops, executed>>

\* _run: `for action_container in container.actions: await self.run_action`
ImmediateAction ==
    /\ dpc = "immediate"
    /\ dActions > 0
    /\ dActions' = dActions - 1
    /\ executed' = executed + 1
    /\ UNCHANGED <<dpc, dStates, dCallbacks, nCallbacks, stop_event, stopper,
                   cell_stops>>

\* _run: the loop has ended, the merged stream is opened
StreamOpen ==
    /\ dpc = "immediate"
    /\ dActions = 0
    /\ dpc' = "top"
    /\ UNCHANGED <<dStates, dCallbacks, dActions, nCallbacks, stop_event,
                   stopper, cell_stops, executed>>

\* trigger_actions: the stream delivers the next motion state; the loop is
\* left when the stop event is set, otherwise _run_callbacks begins and k
\* attached actions are due at this state
NextMotionState(k) ==
    /\ dpc = "top"
    /\ dStates > 0
    /\ IF stop_event
       THEN /\ dpc' = "ended"
            /\ UNCHANGED <<dStates, dCallbacks, dActions>>
       ELSE /\ dpc' = "callbacks"
            /\ dStates' = dStates - 1
            /\ dCallbacks' = nCallbacks
            /\ dActions' = k
    /\ UNCHANGED <<nCallbacks, stop_event, stopper, cell_stops, executed>>

\* _run_callbacks: `await callback(...)` for the next active interrupt
RunCallback ==
    /\ dpc = "callbacks"
    /\ dCallbacks > 0
    /\ dCallbacks' = dCallbacks - 1
    /\ executed' = executed + 1
    /\ UNCHANGED <<dpc, dStates, dActions, nCallbacks, stop_event, stopper,
                   cell_stops>>

\* trigger_actions: _run_callbacks has returned, the loop over the due
\* actions begins
CallbacksDone ==
    /\ dpc = "callbacks"
    /\ dCallbacks = 0
    /\ dpc' = "actions"
    /\ UNCHANGED <<dStates, dCallbacks, dActions, nCallbacks, stop_event,
                   stopper, cell_stops, executed>>

\* trigger_actions: `await self.run_action(action_container.action)`
RunDueAction ==
    /\ dpc = "actions"
    /\ dActions > 0
    /\ dActions' = dActions - 1
    /\ executed' = executed + 1
    /\ UNCHANGED <<dpc, dStates, dCallbacks, nCallbacks, stop_event, stopper,
                   cell_stops>>

\* trigger_actions: `yield motion_state`
YieldState ==
    /\ dpc = "actions"
    /\ dActions = 0
    /\ dpc' = "top"
    /\ UNCHANGED <<dStates, dCallbacks, dActions, nCallbacks, stop_event,
                   stopper, cell_stops, executed>>

\* the stream is exhausted: _run returns and the runner task of
\* stoppable_run cancels the stop scope
RunReturns ==
    /\ dpc = "top"
    /\ dStates = 0
    /\ dpc' = "ended"
    /\ stopper' = IF stopper = "waiting" THEN "cancelled" ELSE stopper
    /\ UNCHANGED <<dStates, dCallbacks, dActions, nCallbacks, stop_event,
                   cell_stops, executed>>

\* C19: once the stop event is set during a drain and robot_cell.stop() has
\* been called, the drain executes no further attached action and no
\* further interrupt callback
C19_NothingRunsAfterStop ==
    [][(stop_event /\ cell_stops > 0) => (executed' = executed)]_vars

(***************************************************************************)
(* ProgramRunner (runner.py).  An execution is one thread created by       *)
(* start(): runner() -> stoppable_run(_run(...), stopper).                 *)
(***************************************************************************)
Execs == 1..MaxStarts

Terminal == {"COMPLETED", "STOPPED", "FAILED"}

\* self._thread is not None: start() has created a thread
Started == {e \in Execs : rpc[e] # "idle"}

is_running == Started # {} /\ state = "RUNNING"

\* the property ProgramRunner.stopped
stopped == sync_stop[self_stop_event]

AllFinished ==
    /\ Started # {}
    /\ \A e \in Started : rpc[e] = "finished"

RInit ==
    /\ state = "NOT_STARTED"
    /\ error = None
    /\ traceback = None
    /\ rpc = [e \in Execs |-> "idle"]
    /\ self_stop_event = 0
    /\ sync_stop = [e \in Execs |-> FALSE]
    /\ cancelled = [e \in Execs |-> FALSE]
    /\ propagating = [e \in Execs |-> "none"]
    /\ phase = [e \in Execs |-> "stmt"]
    /\ abnormal = [e \in Execs |-> FALSE]
    /\ stopAccepted = FALSE
    /\ lastCall = "none"

\* _handle_general_exception: error, traceback and FAILED
HandleGeneralException ==
    /\ error' = "message"
    /\ traceback' = "traceback"
    /\ state' = "FAILED"

\* start(): the check of the state, then a new thread.  RUNNING is not set
\* here but by the thread, in _run_program.
Start ==
    IF state # "NOT_STARTED"
    THEN /\ lastCall' = "start_raised"
         /\ UNCHANGED <<state, error, traceback, rpc, self_stop_event,
                        sync_stop, cancelled, propagating, phase, abnormal,
                        stopAccepted>>
    ELSE /\ \E e \in Execs : rpc[e] = "idle"
         /\ LET e == CHOOSE x \in Execs :
                         /\ rpc[x] = "idle"
                         /\ \A y \in Execs : rpc[y] = "idle" => x <= y
            IN rpc' = [rpc EXCEPT ![e] = "spawned"]
         /\ lastCall' = "started"
         /\ UNCHANGED <<state, error, traceback, self_stop_event, sync_stop,
                        cancelled, propagating, phase, abnormal, stopAccepted>>

\* runner(): a fresh threading.Event replaces self._stop_event, then
\* stoppable_run starts _run and the stopper thread
RunnerBegin(e) ==
    /\ rpc[e] = "spawned"
    /\ self_stop_event' = e
    /\ rpc' = [rpc EXCEPT ![e] = "open"]
    /\ UNCHANGED <<state, error, traceback, sync_stop, cancelled, propagating,
                   phase, abnormal, stopAccepted, lastCall>>

\* _run: `async with robot_cell` and the first on_state_change().  An
\* exception of either leaves through the outer `except Exception`.
OpenCell(e, outcome) ==
    /\ rpc[e] = "open"
    /\ IF outcome = "ok"
       THEN /\ rpc' = [rpc EXCEPT ![e] = "parse"]
            /\ UNCHANGED <<state, error, traceback, abnormal>>
       ELSE /\ HandleGeneralException
            /\ abnormal' = [abnormal EXCEPT ![e] = TRUE]
            /\ rpc' = [rpc EXCEPT ![e] = "finished"]
    /\ UNCHANGED <<self_stop_event, sync_stop, cancelled, propagating, phase,
                   stopAccepted, lastCall>>

\* a cancellation delivered before the inner try block: it leaves through
\* the outer `except cancelled: raise` and changes nothing
CancelEarly(e) ==
    /\ rpc[e] \in {"open", "parse"}
    /\ cancelled[e]
    /\ rpc' = [rpc EXCEPT ![e] = "finished"]
    /\ UNCHANGED <<state, error, traceback, self_stop_event, sync_stop,
                   cancelled, propagating, phase, abnormal, stopAccepted,
                   lastCall>>

\* _run_program: Program.from_code, then state = RUNNING
Parse(e, ok) ==
    /\ rpc[e] = "parse"
    /\ IF ok
       THEN /\ state' = "RUNNING"
            /\ rpc' = [rpc EXCEPT ![e] = "prog"]
            /\ UNCHANGED <<error, traceback, abnormal>>
       ELSE /\ HandleGeneralException
            /\ abnormal' = [abnormal EXCEPT ![e] = TRUE]
            /\ rpc' = [rpc EXCEPT ![e] = "finally"]
    /\ UNCHANGED <<self_stop_event, sync_stop, cancelled, propagating, phase,
                   stopAccepted, lastCall>>

\* the program goes on: between two statements, in a wait, in a drain
ProgPhase(e, ph) ==
    /\ rpc[e] = "prog"
    /\ phase[e] # ph
    /\ phase' = [phase EXCEPT ![e] = ph]
    /\ UNCHANGED <<state, error, traceback, rpc, self_stop_event, sync_stop,
                   cancelled, propagating, abnormal, stopAccepted, lastCall>>

\* the program returns: the `else` branch of the inner try
ProgReturn(e) ==
    /\ rpc[e] = "prog"
    /\ state' = IF stopped THEN "STOPPED"
                ELSE IF state = "RUNNING" THEN "COMPLETED" ELSE state
    /\ rpc' = [rpc EXCEPT ![e] = "finally"]
    /\ phase' = [phase EXCEPT ![e] = "stmt"]
    /\ UNCHANGED <<error, traceback, self_stop_event, sync_stop, cancelled,
                   propagating, abnormal, stopAccepted, lastCall>>

\* the program raises: `except NotPlannableError` / `except Exception`
ProgRaise(e) ==
    /\ rpc[e] = "prog"
    /\ HandleGeneralException
    /\ abnormal' = [abnormal EXCEPT ![e] = TRUE]
    /\ rpc' = [rpc EXCEPT ![e] = "finally"]
    /\ phase' = [phase EXCEPT ![e] = "stmt"]
    /\ UNCHANGED <<self_stop_event, sync_stop, cancelled, propagating,
                   stopAccepted, lastCall>>

\* the cancellation reaches the program: `except cancelled`, the shielded
\* robot_cell.stop(), STOPPED and re-raise; an exception of robot_cell.stop()
\* is re-raised before the state is set
CancelProg(e, stop_ok) ==
    /\ rpc[e] = "prog"
    /\ cancelled[e]
    /\ IF stop_ok
       THEN /\ state' = "STOPPED"
            /\ propagating' = [propagating EXCEPT ![e] = "cancel"]
       ELSE /\ propagating' = [propagating EXCEPT ![e] = "exc"]
            /\ UNCHANGED state
    /\ rpc' = [rpc EXCEPT ![e] = "finally"]
    /\ phase' = [phase EXCEPT ![e] = "stmt"]
    /\ UNCHANGED <<error, traceback, self_stop_event, sync_stop, cancelled,
                   abnormal, stopAccepted, lastCall>>

\* the `finally` block: results, store, logs and the last on_state_change(),
\* which may return, raise, or be cancelled at its await
Finally(e, outcome) ==
    /\ rpc[e] = "finally"
    /\ outcome = "cancelled" => cancelled[e] /\ propagating[e] = "none"
    /\ propagating' = [propagating EXCEPT ![e] =
                          IF outcome = "raises" THEN "exc"
                          ELSE IF outcome = "cancelled" THEN "cancel"
                          ELSE @]
    /\ rpc' = [rpc EXCEPT ![e] = "exit"]
    /\ UNCHANGED <<state, error, traceback, self_stop_event, sync_stop,
                   cancelled, phase, abnormal, stopAccepted, lastCall>>

\* leaving the task group and `async with robot_cell` (close), then the
\* outer handlers: `except cancelled: raise`, `except Exception`
ExitCell(e, close_ok) ==
    /\ rpc[e] = "exit"
    /\ LET leaving == IF close_ok THEN propagating[e] ELSE "exc"
       IN IF leaving = "exc"
          THEN HandleGeneralException
          ELSE UNCHANGED <<state, error, traceback>>
    /\ rpc' = [rpc EXCEPT ![e] = "finished"]
    /\ propagating' = [propagating EXCEPT ![e] = "none"]
    /\ UNCHANGED <<self_stop_event, sync_stop, cancelled, phase, abnormal,
                   stopAccepted, lastCall>>

\* stop(): RuntimeError unless is_running(), else self._stop_event.set()
StopCall ==
    IF is_running
    THEN /\ sync_stop' = [sync_stop EXCEPT ![self_stop_event] = TRUE]
         /\ stopAccepted' = TRUE
         /\ lastCall' = "stop_set"
         /\ UNCHANGED <<state, error, traceback, rpc, self_stop_event,
                        cancelled, propagating, phase, abnormal>>
    ELSE /\ lastCall' = "stop_raised"
         /\ UNCHANGED <<state, error, traceback, rpc, self_stop_event,
                        sync_stop, cancelled, propagating, phase, abnormal,
                        stopAccepted>>

\* the stopper thread polls its threading.Event every 0.2 s, sets the anyio
\* event, and the waiter of stoppable_run cancels the run scope
StopperFire(e) ==
    /\ rpc[e] \in {"open", "parse", "prog", "finally"}
    /\ sync_stop[e]
    /\ ~cancelled[e]
    /\ cancelled' = [cancelled EXCEPT ![e] = TRUE]
    /\ UNCHANGED <<state, error, traceback, rpc, self_stop_event, sync_stop,
                   propagating, phase, abnormal, stopAccepted, lastCall>>

(***************************************************************************)
(* ProgramRunner.estop_handler (runner.py)                                 *)
(***************************************************************************)
\* the values of RobotControllerState.safety_state the cell streams
\* (simulation.py streams SAFETY_STATE_NORMAL)
SafetyStates ==
    {"SAFETY_STATE_NORMAL", "SAFETY_STATE_REDUCED", "SAFETY_STATE_STOP"}

\* the objects of robot_cell.state_stream: controller states and others
StreamedStates ==
    {[controller |-> TRUE, safety_state |-> s] : s \in SafetyStates}
        \cup {[controller |-> FALSE, safety_state |-> None]}

acceptable_safety_states == {"SAFETY_NORMAL", "SAFETY_REDUCED"}

state_is_estop(state_) ==
    state_.controller /\ state_.safety_state \notin acceptable_safety_states

\* estop_handler: the monitor task of execution e receives state_ while the
\* program task stands at an await.  On an estop it calls self.stop(),
\* which sets the stop event of the runner when is_running and raises
\* RuntimeError otherwise; the RuntimeError ends the task group: the
\* program task is cancelled (`except cancelled`: robot_cell.stop(), which
\* returns or raises) and the error leaves through the finally block.
EstopState(e, state_, stop_ok) ==
    /\ rpc[e] = "prog"
    /\ IF ~state_is_estop(state_)
       THEN UNCHANGED <<state, rpc, sync_stop, propagating, phase,
                        stopAccepted>>
       ELSE IF is_running
       THEN /\ sync_stop' = [sync_stop EXCEPT ![self_stop_event] = TRUE]
            /\ stopAccepted' = TRUE
            /\ UNCHANGED <<state, rpc, propagating, phase>>
       ELSE /\ state' = IF stop_ok THEN "STOPPED" ELSE state
            /\ propagating' = [propagating EXCEPT ![e] = "exc"]
            /\ rpc' = [rpc EXCEPT ![e] = "finally"]
            /\ phase' = [phase EXCEPT ![e] = "stmt"]
            /\ UNCHANGED <<sync_stop, stopAccepted>>
    /\ UNCHANGED <<error, traceback, self_stop_event, cancelled, abnormal,
                   lastCall>>

\* C21: while the program is RUNNING, a controller state whose safety state
\* is outside {NORMAL, REDUCED} makes the monitor request the stop of the
\* run, and a controller state whose safety state is NORMAL or REDUCED
\* requests no stop
C21_EstopOnlyOutsideNormalReduced ==
    [][\A e \in Execs, s \in SafetyStates, stop_ok \in BOOLEAN :
          (/\ state = "RUNNING"
           /\ EstopState(e, [controller |-> TRUE, safety_state |-> s], stop_ok))
          => IF s \in {"SAFETY_STATE_NORMAL", "SAFETY_STATE_REDUCED"}
             THEN sync_stop' = sync_stop
             ELSE sync_stop'[self_stop_event]]_vars

(***************************************************************************)
(* Claims about the ProgramRunner                                          *)
(***************************************************************************)

\* C4: only the first start() begins an execution: at most one thread is
\* ever created for one runner
C4_OnlyFirstStartBeginsExecution == Cardinality(Started) <= 1

\* C5: every change of the state is one of the allowed transitions, and in
\* particular a terminal state (COMPLETED, STOPPED, FAILED) never changes
\* again, whatever the cell's close and the on_state_change callback do
C5_TerminalStateNeverChanges ==
    [][(state \in Terminal) => (state' = state)]_vars

\* C6: if stop() was called while the run was RUNNING, the run ends with
\* the final state STOPPED
C6_StopWhileRunningEndsStopped ==
    (stopAccepted /\ AllFinished) => state = "STOPPED"

\* C7: a program that ended abnormally for another reason than a user stop
\* leaves the run FAILED with an error message and a traceback, never
\* COMPLETED
C7_AbnormalEndIsFailed ==
    (AllFinished /\ \E e \in Execs : abnormal[e]) =>
        /\ state = "FAILED"
        /\ error # None
        /\ traceback # None


\* the variables each specification leaves alone
notQueue == <<rvars, cvars, svars, mvars, pvars, dvars, avars, kvars, stvars, gvars, wvars, lvars, bvars, fvars, tvars, ervars, nvars, hvars, csvars, xvars, ovars>>
notRunner == <<qvars, cvars, svars, mvars, pvars, dvars, avars, kvars, stvars, gvars, wvars, lvars, bvars, fvars, tvars, ervars, nvars, hvars, csvars, xvars, ovars>>
notContext == <<rvars, svars, mvars, pvars, dvars, avars, kvars, stvars, gvars, wvars, lvars, bvars, fvars, tvars, ervars, nvars, hvars, csvars, xvars, ovars>>
notSyncContext == <<qvars, rvars, cvars, mvars, pvars, dvars, avars, kvars, stvars, gvars, wvars, lvars, bvars, fvars, tvars, ervars, nvars, hvars, csvars, xvars, ovars>>
notModifier == <<qvars, rvars, cvars, svars, pvars, dvars, avars, kvars, stvars, gvars, wvars, lvars, bvars, fvars, tvars, ervars, nvars, hvars, csvars, xvars, ovars>>
notPlan == <<qvars, rvars, cvars, svars, mvars, dvars, avars, kvars, stvars, gvars, wvars, lvars, bvars, fvars, tvars, ervars, nvars, hvars, csvars, xvars, ovars>>
notStop == <<qvars, rvars, cvars, svars, mvars, pvars, avars, kvars, stvars, gvars, wvars, lvars, bvars, fvars, tvars, ervars, nvars, hvars, csvars, xvars, ovars>>
notActive == <<qvars, rvars, cvars, svars, mvars, pvars, dvars, kvars, stvars, gvars, wvars, lvars, bvars, fvars, tvars, ervars, nvars, hvars, csvars, xvars, ovars>>
notCallStack == <<qvars, rvars, cvars, svars, mvars, pvars, dvars, avars, stvars, gvars, wvars, lvars, bvars, fvars, tvars, ervars, nvars, hvars, csvars, xvars, ovars>>
notStore == <<qvars, rvars, cvars, svars, mvars, pvars, dvars, avars, kvars, gvars, wvars, lvars, bvars, fvars, tvars, ervars, nvars, hvars, csvars, xvars, ovars>>
notSignal == <<qvars, rvars, cvars, svars, mvars, pvars, dvars, avars, kvars, stvars, wvars, lvars, bvars, fvars, tvars, ervars, nvars, hvars, csvars, xvars, ovars>>
notSwitch == <<qvars, rvars, cvars, svars, mvars, pvars, dvars, avars, kvars, stvars, gvars, lvars, bvars, fvars, tvars, ervars, nvars, hvars, csvars, xvars, ovars>>
notLexer == <<qvars, rvars, cvars, svars, mvars, pvars, dvars, avars, kvars, stvars, gvars, wvars, bvars, fvars, tvars, ervars, nvars, hvars, csvars, xvars, ovars>>
notAssoc == <<qvars, rvars, cvars, svars, mvars, pvars, dvars, avars, kvars, stvars, gvars, wvars, lvars, fvars, tvars, ervars, nvars, hvars, csvars, xvars, ovars>>
notFrames == <<qvars, rvars, cvars, svars, mvars, pvars, dvars, avars, kvars, stvars, gvars, wvars, lvars, bvars, tvars, ervars, nvars, hvars, csvars, xvars, ovars>>
notTrigger == <<qvars, rvars, cvars, svars, mvars, pvars, dvars, avars, kvars, stvars, gvars, wvars, lvars, bvars, fvars, ervars, nvars, hvars, csvars, xvars, ovars>>
notRecording == <<qvars, rvars, cvars, svars, mvars, pvars, dvars, avars, kvars, stvars, gvars, wvars, lvars, bvars, fvars, tvars, nvars, hvars, csvars, xvars, ovars>>
notObserver == <<qvars, cvars, svars, mvars, pvars, dvars, avars, kvars, stvars, gvars, wvars, lvars, bvars, fvars, tvars, ervars, hvars, csvars, xvars, ovars>>
notShield == <<qvars, rvars, cvars, svars, mvars, pvars, dvars, avars, kvars, stvars, gvars, wvars, lvars, bvars, fvars, tvars, ervars, nvars, csvars, xvars, ovars>>
notCall == <<qvars, rvars, cvars, svars, mvars, pvars, dvars, avars, kvars, stvars, gvars, wvars, lvars, bvars, fvars, tvars, ervars, nvars, hvars, xvars, ovars>>
notForeign == <<qvars, rvars, cvars, svars, mvars, pvars, dvars, avars, kvars, stvars, gvars, wvars, lvars, bvars, fvars, tvars, ervars, nvars, hvars, csvars, ovars>>
notStdout == <<qvars, rvars, cvars, svars, mvars, pvars, dvars, avars, kvars, stvars, gvars, wvars, lvars, bvars, fvars, tvars, ervars, nvars, hvars, csvars, xvars>>

Init == QInit /\ RInit /\ CInit /\ SInit /\ MInit /\ PInit /\ DInit /\ AInit /\ KInit /\ StInit /\ GInit /\ WInit /\ LInit /\ BInit /\ FInit /\ TInit /\ ERInit /\ NInit /\ HInit /\ CSInit /\ XInit /\ OInit

\* C37: when a drain raises and the `except:` part of the sync block handles
\* the error, no motion and no action of the failed drain is queued any
\* more, so that no later sync plans or executes it again
C37_FailedDrainIsDequeued ==
    [][(qpc = "streaming" /\ qpc' = "idle" /\ lastError' # None) =>
           \A r \in Robots : record'[r] = <<>>]_vars

\* C38: a push that raises MotionError leaves the buffers, the tool map and
\* the last motion of every robot (from which last_pose is read) as they
\* were before the call
C38_FailedPushChangesNothing ==
    [][(qpc = "idle" /\ qpc' = "failed" /\ lastError' = "MotionError") =>
           /\ record' = record
           /\ tcp' = tcp
           /\ last_motions' = last_motions]_vars

Next ==
    \/ \E r \in Robots, tool \in Tools \cup {None}, n \in 1..MaxPush :
           Push(r, tool, n) /\ UNCHANGED notQueue
    \/ \E r \in Robots : Write(r) /\ UNCHANGED notQueue
    \/ Call /\ UNCHANGED notQueue
    \/ \E i \in Interrupts : Activate(i) /\ UNCHANGED notQueue
    \/ \E i \in Interrupts : Deactivate(i) /\ UNCHANGED notQueue
    \/ SyncBegin /\ UNCHANGED notQueue
    \/ \E r \in Robots : StreamStep(r) /\ UNCHANGED notQueue
    \/ \E r \in Robots, handled \in BOOLEAN :
           StreamRaise(r, handled) /\ UNCHANGED notQueue
    \/ DrainFinish /\ UNCHANGED notQueue

Spec == Init /\ [][Next]_vars

NextRunner ==
    \/ Start /\ UNCHANGED notRunner
    \/ \E e \in Execs : RunnerBegin(e) /\ UNCHANGED notRunner
    \/ \E e \in Execs, outcome \in {"ok", "open_raises", "callback_raises"} :
           OpenCell(e, outcome) /\ UNCHANGED notRunner
    \/ \E e \in Execs : CancelEarly(e) /\ UNCHANGED notRunner
    \/ \E e \in Execs, ok \in BOOLEAN : Parse(e, ok) /\ UNCHANGED notRunner
    \/ \E e \in Execs, ph \in {"stmt", "wait", "drain"} :
           ProgPhase(e, ph) /\ UNCHANGED notRunner
    \/ \E e \in Execs : ProgReturn(e) /\ UNCHANGED notRunner
    \/ \E e \in Execs : ProgRaise(e) /\ UNCHANGED notRunner
    \/ \E e \in Execs, stop_ok \in BOOLEAN :
           CancelProg(e, stop_ok) /\ UNCHANGED notRunner
    \/ \E e \in Execs, outcome \in {"ok", "raises", "cancelled"} :
           Finally(e, outcome) /\ UNCHANGED notRunner
    \/ \E e \in Execs, close_ok \in BOOLEAN :
           ExitCell(e, close_ok) /\ UNCHANGED notRunner
    \/ StopCall /\ UNCHANGED notRunner
    \/ \E e \in Execs : StopperFire(e) /\ UNCHANGED notRunner

SpecRunner == Init /\ [][NextRunner]_vars

NextContext ==
    \/ \E tool \in Tools \cup {None}, n \in 1..MaxPush :
           CtxPush(tool, n) /\ UNCHANGED notContext
    \/ \E r \in Robots : EnterRobotContext(r) /\ UNCHANGED notContext
    \/ LeaveRobotContext /\ UNCHANGED notContext
    \/ ImplicitSync /\ UNCHANGED notContext
    \/ SyncStatement /\ UNCHANGED notContext
    \/ \E r \in Robots : StreamStep(r) /\ UNCHANGED <<cvars, notContext>>
    \/ DrainFinish /\ UNCHANGED <<cvars, notContext>>

SpecContext == Init /\ [][NextContext]_vars

NextSyncContext ==
    \/ \E d, b, c \in BOOLEAN : SyncContextBegin(d, b, c) /\ UNCHANGED notSyncContext
    \/ \E outcome \in Errors \cup {"ok"} : DoBody(outcome) /\ UNCHANGED notSyncContext
    \/ \E outcome \in Errors \cup {"ok"} : Drain(outcome) /\ UNCHANGED notSyncContext
    \/ \E outcome \in Errors \cup {"ok"} : SyncBody(outcome) /\ UNCHANGED notSyncContext
    \/ \E outcome \in Errors \cup {"ok"} :
           ExceptionHandler(outcome) /\ UNCHANGED notSyncContext

SpecSyncContext == Init /\ [][NextSyncContext]_vars

NextModifier ==
    \/ \E mods \in ModifierLists : EnterWith(mods) /\ UNCHANGED notModifier
    \/ ExitWith /\ UNCHANGED notModifier
    \/ \E how \in {"error", "break", "return"} :
           LeaveWithBySignal(how) /\ UNCHANGED notModifier
    \/ Move /\ UNCHANGED notModifier
    \/ \E mods \in ModifierLists, path \in {"pushed", "frame_relation", "raised"} :
           MoveWith(mods, path) /\ UNCHANGED notModifier

SpecModifier == Init /\ [][NextModifier]_vars

NextPlan ==
    \/ \E r \in Robots : PlanMove(r) /\ UNCHANGED notPlan
    \/ \E action \in PlanActions : PlanReadOrCall(action) /\ UNCHANGED notPlan
    \/ \E r \in Robots : PlanWrite(r) /\ UNCHANGED notPlan
    \/ \E last \in BOOLEAN : PlanDrain(last) /\ UNCHANGED notPlan

SpecPlan == Init /\ [][NextPlan]_vars

NextStop ==
    \/ \E n \in 1..MaxStreamStates, k \in 0..MaxDueActions, cb \in 0..MaxCallbacks :
           RunBegin(n, k, cb) /\ UNCHANGED notStop
    \/ SetStopEvent /\ UNCHANGED notStop
    \/ StopperCallsStop /\ UNCHANGED notStop
    \/ RunScopeCancel /\ UNCHANGED notStop
    \/ ImmediateAction /\ UNCHANGED notStop
    \/ StreamOpen /\ UNCHANGED notStop
    \/ \E k \in 0..MaxDueActions : NextMotionState(k) /\ UNCHANGED notStop
    \/ RunCallback /\ UNCHANGED notStop
    \/ CallbacksDone /\ UNCHANGED notStop
    \/ RunDueAction /\ UNCHANGED notStop
    \/ YieldState /\ UNCHANGED notStop
    \/ RunReturns /\ UNCHANGED notStop

SpecStop == Init /\ [][NextStop]_vars

NextEstop ==
    \/ NextRunner
    \/ \E e \in Execs, state_ \in StreamedStates, stop_ok \in BOOLEAN :
           EstopState(e, state_, stop_ok) /\ UNCHANGED notRunner

SpecEstop == Init /\ [][NextEstop]_vars

NextActive ==
    \/ \E ids \in SUBSET CellRobots, default \in CellRobots \cup {None} :
           NewExecutionContext(ids, default) /\ UNCHANGED notActive
    \/ WithRobotLeave /\ UNCHANGED notActive
    \/ \E r \in CellRobots : WithRobotEnter(r) /\ UNCHANGED notActive
    \/ MotionReadsActiveRobot /\ UNCHANGED notActive

SpecActive == Init /\ [][NextActive]_vars

NextCallStack ==
    \/ \E by_runner \in BOOLEAN : RunProgram(by_runner) /\ UNCHANGED notCallStack
    \/ push_frame /\ UNCHANGED notCallStack
    \/ pop_frame /\ UNCHANGED notCallStack
    \/ \E caught \in BOOLEAN : BodyRaises(caught) /\ UNCHANGED notCallStack

SpecCallStack == Init /\ [][NextCallStack]_vars

NextStore ==
    \/ \E init_locals \in LocalInits : Descent(init_locals) /\ UNCHANGED notStore
    \/ Ascent /\ UNCHANGED notStore
    \/ \E name \in Names, value \in StoreValues :
           AssignName(name, value) /\ UNCHANGED notStore
    \/ \E values \in [Names -> StoreValues] :
           AssignNames(values) /\ UNCHANGED notStore

SpecStore == Init /\ [][NextStore]_vars

NextSignal ==
    \/ \E construct \in Constructs :
           EnterConstruct(construct) /\ UNCHANGED notSignal
    \/ LeaveConstruct /\ UNCHANGED notSignal
    \/ \E sig \in Signals : RaiseSignal(sig) /\ UNCHANGED notSignal
    \/ PropagateSignal /\ UNCHANGED notSignal
    \/ SignalReachesRunner /\ UNCHANGED notSignal

SpecSignal == Init /\ [][NextSignal]_vars

NextSwitch ==
    \/ \E value \in CaseValues, cases \in CaseLists, has_default \in BOOLEAN :
           SwitchBegin(value, cases, has_default) /\ UNCHANGED notSwitch
    \/ SwitchCase /\ UNCHANGED notSwitch
    \/ SwitchElse /\ UNCHANGED notSwitch

SpecSwitch == Init /\ [][NextSwitch]_vars

NextLexer ==
    \/ lxPos = 0 /\ \E text \in Inputs : LexerInit(text) /\ UNCHANGED notLexer
    \/ NextToken /\ UNCHANGED notLexer

SpecLexer == Init /\ [][NextLexer]_vars

NextAssoc ==
    \/ aspc = "idle" /\ \E x \in AssocInputs : \E key \in AssocKeysOf(x) :
           \E v1 \in AssocNumbers, v2 \in AssocNumbers :
               AssocBegin(x, key, v1, v2) /\ UNCHANGED notAssoc
    \/ AssocOnce /\ UNCHANGED notAssoc
    \/ AssocTwice /\ UNCHANGED notAssoc

SpecAssoc == Init /\ [][NextAssoc]_vars

NextFrames ==
    \/ \E key \in RelationKeys, item \in Transforms :
           SetRelation(key, item) /\ UNCHANGED notFrames
    \/ \E target \in FrameNames, source \in FrameNames :
           FsEval(target, source) /\ UNCHANGED notFrames

SpecFrames == Init /\ [][NextFrames]_vars

NextTrigger ==
    \/ tpc = "idle" /\ \E locations \in UNION {[1..n -> PathParameters] : n \in 0..MaxDueActions} :
           \E states \in UNION {[1..n -> PathParameters] : n \in 0..MaxStreamStates} :
               \E cb \in 0..MaxCallbacks :
                   TriggerBegin(locations, states, cb) /\ UNCHANGED notTrigger
    \/ TriggerSetStop /\ UNCHANGED notTrigger
    \/ TriggerNextState /\ UNCHANGED notTrigger
    \/ TriggerCallback /\ UNCHANGED notTrigger
    \/ TriggerCallbacksDone /\ UNCHANGED notTrigger
    \/ TriggerFire /\ UNCHANGED notTrigger
    \/ TriggerYield /\ UNCHANGED notTrigger
    \/ TriggerEnds /\ UNCHANGED notTrigger

SpecTrigger == Init /\ [][NextTrigger]_vars



NextRecording ==
    \/ ContextCreated /\ UNCHANGED notRecording
    \/ DrainBegin /\ UNCHANGED notRecording
    \/ (\E g \in Robots : RecordState(g)) /\ UNCHANGED notRecording
    \/ DrainEnd /\ UNCHANGED notRecording
    \/ RunEnd /\ UNCHANGED notRecording

SpecRecording == Init /\ [][NextRecording]_vars


\* C33: when every execution has finished, each state the run changed to,
\* RUNNING included, was shown to an invocation of on_state_change.
C33_CallbackAfterEveryChange ==
    AllFinished =>
        \A i \in DOMAIN state_changes :
            \E j \in DOMAIN on_state_change : on_state_change[j] = state_changes[i]

NextObserver ==
    \/ Start /\ TrackState /\ UNCHANGED on_state_change /\ UNCHANGED notObserver
    \/ \E e \in Execs :
           RunnerBegin(e) /\ TrackState /\ UNCHANGED on_state_change
               /\ UNCHANGED notObserver
    \/ \E e \in Execs :
           OpenCell(e, "open_raises") /\ TrackState /\ UNCHANGED on_state_change
               /\ UNCHANGED notObserver
    \/ \E e \in Execs, outcome \in {"ok", "callback_raises"} :
           OpenCell(e, outcome) /\ TrackState /\ Invoke /\ UNCHANGED notObserver
    \/ \E e \in Execs :
           CancelEarly(e) /\ TrackState /\ UNCHANGED on_state_change
               /\ UNCHANGED notObserver
    \/ \E e \in Execs, ok \in BOOLEAN :
           Parse(e, ok) /\ TrackState /\ UNCHANGED on_state_change
               /\ UNCHANGED notObserver
    \/ \E e \in Execs, ph \in {"stmt", "wait", "drain"} :
           ProgPhase(e, ph) /\ TrackState /\ UNCHANGED on_state_change
               /\ UNCHANGED notObserver
    \/ \E e \in Execs :
           ProgReturn(e) /\ TrackState /\ UNCHANGED on_state_change
               /\ UNCHANGED notObserver
    \/ \E e \in Execs :
           ProgRaise(e) /\ TrackState /\ UNCHANGED on_state_change
               /\ UNCHANGED notObserver
    \/ \E e \in Execs, stop_ok \in BOOLEAN :
           CancelProg(e, stop_ok) /\ TrackState /\ UNCHANGED on_state_change
               /\ UNCHANGED notObserver
    \/ \E e \in Execs, outcome \in {"ok", "raises", "cancelled"} :
           Finally(e, outcome) /\ TrackState /\ Invoke /\ UNCHANGED notObserver
    \/ \E e \in Execs, close_ok \in BOOLEAN :
           ExitCell(e, close_ok) /\ TrackState /\ UNCHANGED on_state_change
               /\ UNCHANGED notObserver
    \/ StopCall /\ TrackState /\ UNCHANGED on_state_change /\ UNCHANGED notObserver
    \/ \E e \in Execs :
           StopperFire(e) /\ TrackState /\ UNCHANGED on_state_change
               /\ UNCHANGED notObserver

SpecObserver == Init /\ [][NextObserver]_vars


NextShield ==
    \/ hpc = "idle" /\ (\E program \in Programs : ShieldedCall(program))
           /\ UNCHANGED notShield
    \/ BodyStep /\ UNCHANGED notShield
    \/ StopSet /\ UNCHANGED notShield
    \/ BodyReturns /\ UNCHANGED notShield
    \/ CancelRaised /\ UNCHANGED notShield
    \/ CellStopped /\ UNCHANGED notShield
    \/ FinallyBlock /\ UNCHANGED notShield
    \/ LoopClosed /\ UNCHANGED notShield

SpecShield == Init /\ [][NextShield]_vars


NextCall ==
    \/ CallBegin /\ UNCHANGED notCall
    \/ \E how \in {"end", "return"} : BodyEnds(how) /\ UNCHANGED notCall
    \/ \E how \in {"error", "break"} : BodyLeftBySignal(how) /\ UNCHANGED notCall
    \/ SignalPropagates /\ UNCHANGED notCall
    \/ SignalCaught /\ UNCHANGED notCall

SpecCall == Init /\ [][NextCall]_vars


NextForeign ==
    \/ \E foreign_functions \in SUBSET ForeignNames :
           ContextInit(foreign_functions) /\ UNCHANGED notForeign
    \/ \E name \in CallNames : DefineFunction(name) /\ UNCHANGED notForeign
    \/ \E name \in CallNames : FunctionCall(name) /\ UNCHANGED notForeign

SpecForeign == Init /\ [][NextForeign]_vars


NextStdout ==
    \/ \E i \in Runners : RedirectEnter(i) /\ UNCHANGED notStdout
    \/ StdoutWrite /\ UNCHANGED notStdout
    \/ \E i \in Runners : RedirectExit(i) /\ UNCHANGED notStdout

SpecStdout == Init /\ [][NextStdout]_vars
====
